---- MODULE Spec2Model ----
(***************************************************************************)
(* A model of the Restate MCP server: the HTTP gateway fetchWithOptions,   *)
(* the admin API client restateApi, the zod schemas of schemas.ts and the  *)
(* tools registered on the MCP server (src/src/index.ts).                  *)
(*                                                                         *)
(* Text (a JS string, an HTTP body, an error message) is a sequence of     *)
(* lexical atoms.  The characters JSON gives a meaning to (quote,          *)
(* backslash, braces, brackets, colon, comma, newline, space) are atoms of *)
(* their own; a run of other characters (a word such as a field name, a    *)
(* literal of a template string) is one atom.  "Text a contains text b" is *)
(* then containment of atom sequences.                                     *)
(***************************************************************************)
EXTENDS Integers, Sequences, FiniteSets, TLC

(***************************************************************************)
(* JS values.  Every value is a record [t, v]: t the type tag, v the       *)
(* payload (a sequence of <<key, value>> pairs in insertion order for an   *)
(* object, a sequence of values for an array, a text for a string).        *)
(***************************************************************************)
JUndef == [t |-> "undefined", v |-> <<>>]
JNull == [t |-> "null", v |-> <<>>]
JBool(b) == [t |-> "bool", v |-> b]
JNum(n) == [t |-> "num", v |-> n]
JStr(s) == [t |-> "str", v |-> s]
JArr(a) == [t |-> "arr", v |-> a]
JObj(pairs) == [t |-> "obj", v |-> pairs]

\* The number literals of the model: NumAtoms[n + 2] is the text of the number n.
NumAtoms == <<"-1", "0", "1", "2", "3">>
NumAtom(n) == NumAtoms[n + 2]
IsNumAtom(a) == \E i \in 1..Len(NumAtoms) : NumAtoms[i] = a
NumOfAtom(a) == (CHOOSE i \in 1..Len(NumAtoms) : NumAtoms[i] = a) - 2

Quote == "\""
Backslash == "\\"
Newline == "\n"
Space == " "

\* key in obj / obj[key] of JS, for an object value (the last pair of a key wins).
HasKey(o, k) == o.t = "obj" /\ \E i \in 1..Len(o.v) : o.v[i][1] = k
Get(o, k) ==
    IF HasKey(o, k)
    THEN LET i == CHOOSE j \in 1..Len(o.v) :
                      o.v[j][1] = k /\ \A m \in (j + 1)..Len(o.v) : o.v[m][1] # k
         IN o.v[i][2]
    ELSE JUndef

\* String.prototype.includes on texts.
Contains(hay, needle) ==
    \E i \in 0..(Len(hay) - Len(needle)) :
        \A j \in 1..Len(needle) : hay[i + j] = needle[j]

\* String.prototype.substring(0, n).
\* The whole text, whatever its length.
WholeText(s, n) == s

Substring0(s, n) == IF Len(s) <= n THEN s ELSE SubSeq(s, 1, n)

(***************************************************************************)
(* JSON.stringify(value, null, indent).  A property whose value is         *)
(* undefined is left out of an object; undefined in an array is written    *)
(* null.  indent = 0 gives the compact form, indent = 2 the pretty form.   *)
(***************************************************************************)
EscapeAtom(c) ==
    IF c = Quote THEN <<Backslash, Quote>>
    ELSE IF c = Backslash THEN <<Backslash, Backslash>>
    ELSE IF c = Newline THEN <<Backslash, "n">>
    ELSE <<c>>

RECURSIVE EscapeText(_)
EscapeText(s) == IF s = <<>> THEN <<>> ELSE EscapeAtom(Head(s)) \o EscapeText(Tail(s))

QuoteText(s) == <<Quote>> \o EscapeText(s) \o <<Quote>>

RECURSIVE Spaces(_)
Spaces(n) == IF n <= 0 THEN <<>> ELSE <<Space>> \o Spaces(n - 1)

\* The line break before a member at nesting level lvl (nothing when compact).
Break(indent, lvl) == IF indent = 0 THEN <<>> ELSE <<Newline>> \o Spaces(indent * lvl)

DefinedPairs(pairs) == SelectSeq(pairs, LAMBDA pair : pair[2].t # "undefined")

RECURSIVE Stringify(_, _, _)
RECURSIVE StringifyItems(_, _, _, _)
RECURSIVE StringifyPairs(_, _, _, _)

Stringify(val, indent, lvl) ==
    IF val.t = "null" \/ val.t = "undefined" THEN <<"null">>
    ELSE IF val.t = "bool" THEN (IF val.v THEN <<"true">> ELSE <<"false">>)
    ELSE IF val.t = "num" THEN <<NumAtom(val.v)>>
    ELSE IF val.t = "str" THEN QuoteText(val.v)
    ELSE IF val.t = "arr"
    THEN IF val.v = <<>> THEN <<"[", "]">>
         ELSE <<"[">> \o StringifyItems(val.v, 1, indent, lvl + 1)
                      \o Break(indent, lvl) \o <<"]">>
    ELSE IF \A i \in 1..Len(val.v) : val.v[i][2].t = "undefined" THEN <<"{", "}">>
    ELSE <<"{">> \o StringifyPairs(DefinedPairs(val.v), 1, indent, lvl + 1)
                 \o Break(indent, lvl) \o <<"}">>

StringifyItems(items, i, indent, lvl) ==
    IF i > Len(items) THEN <<>>
    ELSE Break(indent, lvl) \o Stringify(items[i], indent, lvl)
         \o (IF i < Len(items) THEN <<",">> ELSE <<>>)
         \o StringifyItems(items, i + 1, indent, lvl)

StringifyPairs(ps, i, indent, lvl) ==
    IF i > Len(ps) THEN <<>>
    ELSE Break(indent, lvl) \o QuoteText(<<ps[i][1]>>) \o <<":">>
         \o (IF indent = 0 THEN <<>> ELSE <<Space>>)
         \o Stringify(ps[i][2], indent, lvl)
         \o (IF i < Len(ps) THEN <<",">> ELSE <<>>)
         \o StringifyPairs(ps, i + 1, indent, lvl)

JSONStringify(val, indent) == Stringify(val, indent, 0)

(***************************************************************************)
(* JSON.parse(text): a recursive-descent parser.  Each operator reads from *)
(* position i and answers [ok, val, next]; ok = FALSE is the SyntaxError.  *)
(***************************************************************************)
ParseFail == [ok |-> FALSE, val |-> JUndef, next |-> 0]
Parsed(val, next) == [ok |-> TRUE, val |-> val, next |-> next]

RECURSIVE SkipWs(_, _)
SkipWs(s, i) ==
    IF i <= Len(s) /\ (s[i] = Space \/ s[i] = Newline) THEN SkipWs(s, i + 1) ELSE i

\* The body of a string literal from position i (after the opening quote).
RECURSIVE ParseChars(_, _, _)
ParseChars(s, i, acc) ==
    IF i > Len(s) THEN ParseFail
    ELSE IF s[i] = Quote THEN Parsed(JStr(acc), i + 1)
    ELSE IF s[i] = Newline THEN ParseFail
    ELSE IF s[i] = Backslash
    THEN IF i + 1 > Len(s) THEN ParseFail
         ELSE IF s[i + 1] = Quote THEN ParseChars(s, i + 2, Append(acc, Quote))
         ELSE IF s[i + 1] = Backslash THEN ParseChars(s, i + 2, Append(acc, Backslash))
         ELSE IF s[i + 1] = "n" THEN ParseChars(s, i + 2, Append(acc, Newline))
         ELSE ParseFail
    ELSE ParseChars(s, i + 1, Append(acc, s[i]))

RECURSIVE ParseValue(_, _)
RECURSIVE ParseValueAt(_, _)
RECURSIVE ParseItems(_, _, _)
RECURSIVE ParseItemEnd(_, _, _)
RECURSIVE ParsePairs(_, _, _)
RECURSIVE ParsePairColon(_, _, _)
RECURSIVE ParsePairValue(_, _, _, _)
RECURSIVE ParsePairEnd(_, _, _)

\* A value, after any white space.
ParseValue(s, i) == ParseValueAt(s, SkipWs(s, i))

ParseValueAt(s, i) ==
    IF i > Len(s) THEN ParseFail
    ELSE IF s[i] = "null" THEN Parsed(JNull, i + 1)
    ELSE IF s[i] = "true" THEN Parsed(JBool(TRUE), i + 1)
    ELSE IF s[i] = "false" THEN Parsed(JBool(FALSE), i + 1)
    ELSE IF IsNumAtom(s[i]) THEN Parsed(JNum(NumOfAtom(s[i])), i + 1)
    ELSE IF s[i] = Quote THEN ParseChars(s, i + 1, <<>>)
    ELSE IF s[i] = "[" THEN ParseItems(s, SkipWs(s, i + 1), <<>>)
    ELSE IF s[i] = "{" THEN ParsePairs(s, SkipWs(s, i + 1), <<>>)
    ELSE ParseFail

\* The items of an array from position i, up to its "]".
ParseItems(s, i, acc) ==
    IF acc = <<>> /\ i <= Len(s) /\ s[i] = "]" THEN Parsed(JArr(<<>>), i + 1)
    ELSE ParseItemEnd(s, ParseValue(s, i), acc)

\* After the item r: "]" ends the array, "," announces the next item.
ParseItemEnd(s, r, acc) ==
    IF ~r.ok \/ SkipWs(s, r.next) > Len(s) THEN ParseFail
    ELSE IF s[SkipWs(s, r.next)] = "]"
    THEN Parsed(JArr(Append(acc, r.val)), SkipWs(s, r.next) + 1)
    ELSE IF s[SkipWs(s, r.next)] = ","
    THEN ParseItems(s, SkipWs(s, r.next) + 1, Append(acc, r.val))
    ELSE ParseFail

\* The members of an object from position i, up to its "}".
ParsePairs(s, i, acc) ==
    IF acc = <<>> /\ i <= Len(s) /\ s[i] = "}" THEN Parsed(JObj(<<>>), i + 1)
    ELSE IF SkipWs(s, i) > Len(s) THEN ParseFail
    ELSE IF s[SkipWs(s, i)] # Quote THEN ParseFail
    ELSE ParsePairColon(s, ParseChars(s, SkipWs(s, i) + 1, <<>>), acc)

\* After the key k (one atom in this model): the colon and the value.
ParsePairColon(s, k, acc) ==
    IF ~k.ok \/ Len(k.val.v) # 1 \/ SkipWs(s, k.next) > Len(s) THEN ParseFail
    ELSE IF s[SkipWs(s, k.next)] # ":" THEN ParseFail
    ELSE ParsePairValue(s, k.val.v[1], ParseValue(s, SkipWs(s, k.next) + 1), acc)

ParsePairValue(s, key, r, acc) ==
    IF ~r.ok THEN ParseFail
    ELSE ParsePairEnd(s, SkipWs(s, r.next), Append(acc, <<key, r.val>>))

\* After a member: "}" ends the object, "," announces the next member.
ParsePairEnd(s, j, acc) ==
    IF j > Len(s) THEN ParseFail
    ELSE IF s[j] = "}" THEN Parsed(JObj(acc), j + 1)
    ELSE IF s[j] = "," THEN ParsePairs(s, j + 1, acc)
    ELSE ParseFail

\* One value, then only white space.
ParseWhole(s, r) == IF r.ok /\ SkipWs(s, r.next) > Len(s) THEN r ELSE ParseFail

JSONParse(s) == ParseWhole(s, ParseValue(s, 1))

(***************************************************************************)
(* zod.  A schema is data, written as schemas.ts writes it; ZodParse is    *)
(* schema.parse(value) and answers [ok, val]: ok = FALSE is the ZodError,  *)
(* val the validated output.  An object schema strips the keys it does not *)
(* declare and writes its output in the order of its shape; a union        *)
(* answers with the first option that accepts the value.                   *)
(***************************************************************************)
ZString == [kind |-> "string"]
ZBoolean == [kind |-> "boolean"]
ZAny == [kind |-> "any"]
ZInt == [kind |-> "number", hasMin |-> FALSE, min |-> 0]
ZIntMin(n) == [kind |-> "number", hasMin |-> TRUE, min |-> n]
ZEnum(values) == [kind |-> "enum", values |-> values]
ZOptional(inner) == [kind |-> "optional", inner |-> inner]
ZNullable(inner) == [kind |-> "nullable", inner |-> inner]
ZDefault(inner, dflt) == [kind |-> "default", inner |-> inner, dflt |-> dflt]
ZArray(element) == [kind |-> "array", element |-> element]
ZRecord(valueSchema) == [kind |-> "record", valueSchema |-> valueSchema]
ZObject(shape) == [kind |-> "object", shape |-> shape]
ZUnion(options) == [kind |-> "union", options |-> options]
\* schema.extend(more): the shape followed by the added fields.
ZExtend(schema, more) == ZObject(schema.shape \o more)

ZodFail == [ok |-> FALSE, val |-> JUndef]
ZodOk(val) == [ok |-> TRUE, val |-> val]

RECURSIVE ZodParse(_, _)
RECURSIVE ZodParseShape(_, _, _, _)
RECURSIVE ZodShapeField(_, _, _, _, _)
RECURSIVE ZodParseEach(_, _, _, _)
RECURSIVE ZodEachItem(_, _, _, _, _)
RECURSIVE ZodParseRecord(_, _, _, _)
RECURSIVE ZodRecordEntry(_, _, _, _, _)
RECURSIVE ZodParseUnion(_, _, _)
RECURSIVE ZodUnionOption(_, _, _, _)

ZodParse(schema, val) ==
    IF schema.kind = "any" THEN ZodOk(val)
    ELSE IF schema.kind = "optional"
    THEN IF val.t = "undefined" THEN ZodOk(JUndef) ELSE ZodParse(schema.inner, val)
    ELSE IF schema.kind = "nullable"
    THEN IF val.t = "null" THEN ZodOk(JNull) ELSE ZodParse(schema.inner, val)
    ELSE IF schema.kind = "default"
    THEN IF val.t = "undefined" THEN ZodParse(schema.inner, schema.dflt)
         ELSE ZodParse(schema.inner, val)
    ELSE IF schema.kind = "string"
    THEN IF val.t = "str" THEN ZodOk(val) ELSE ZodFail
    ELSE IF schema.kind = "boolean"
    THEN IF val.t = "bool" THEN ZodOk(val) ELSE ZodFail
    ELSE IF schema.kind = "number"
    THEN IF val.t = "num" /\ (schema.hasMin => val.v >= schema.min)
         THEN ZodOk(val) ELSE ZodFail
    ELSE IF schema.kind = "enum"
    THEN IF val.t = "str" /\ val.v \in schema.values THEN ZodOk(val) ELSE ZodFail
    ELSE IF schema.kind = "array"
    THEN IF val.t = "arr" THEN ZodParseEach(schema.element, val.v, 1, <<>>) ELSE ZodFail
    ELSE IF schema.kind = "record"
    THEN IF val.t = "obj" THEN ZodParseRecord(schema.valueSchema, val.v, 1, <<>>)
         ELSE ZodFail
    ELSE IF schema.kind = "object"
    THEN IF val.t = "obj" THEN ZodParseShape(schema.shape, val, 1, <<>>) ELSE ZodFail
    ELSE ZodParseUnion(schema.options, val, 1)

\* The fields of an object schema, in shape order.
ZodParseShape(shape, input, i, acc) ==
    IF i > Len(shape) THEN ZodOk(JObj(acc))
    ELSE ZodShapeField(shape, input, i, acc, ZodParse(shape[i][2], Get(input, shape[i][1])))

\* A field is written to the output when the input has the key or its parsed
\* value r.val is defined; a key the shape does not name is never written.
ZodShapeField(shape, input, i, acc, r) ==
    IF ~r.ok THEN ZodFail
    ELSE IF HasKey(input, shape[i][1]) \/ r.val.t # "undefined"
    THEN ZodParseShape(shape, input, i + 1, Append(acc, <<shape[i][1], r.val>>))
    ELSE ZodParseShape(shape, input, i + 1, acc)

ZodParseEach(element, items, i, acc) ==
    IF i > Len(items) THEN ZodOk(JArr(acc))
    ELSE ZodEachItem(element, items, i, acc, ZodParse(element, items[i]))

ZodEachItem(element, items, i, acc, r) ==
    IF ~r.ok THEN ZodFail ELSE ZodParseEach(element, items, i + 1, Append(acc, r.val))

ZodParseRecord(valueSchema, pairs, i, acc) ==
    IF i > Len(pairs) THEN ZodOk(JObj(acc))
    ELSE ZodRecordEntry(valueSchema, pairs, i, acc, ZodParse(valueSchema, pairs[i][2]))

ZodRecordEntry(valueSchema, pairs, i, acc, r) ==
    IF ~r.ok THEN ZodFail
    ELSE ZodParseRecord(valueSchema, pairs, i + 1, Append(acc, <<pairs[i][1], r.val>>))

\* The first option that accepts the value answers.
ZodParseUnion(options, val, i) ==
    IF i > Len(options) THEN ZodFail
    ELSE ZodUnionOption(options, val, i, ZodParse(options[i], val))

ZodUnionOption(options, val, i, r) ==
    IF r.ok THEN r ELSE ZodParseUnion(options, val, i + 1)

(***************************************************************************)
(* schemas.ts                                                              *)
(***************************************************************************)
ServiceNameRevPairSchema ==
    ZObject(<< <<"name", ZString>>, <<"revision", ZIntMin(0)>> >>)

DeploymentBaseSchema ==
    ZObject(<< <<"id", ZString>>, <<"services", ZArray(ServiceNameRevPairSchema)>> >>)

HttpDeploymentSchema ==
    ZExtend(DeploymentBaseSchema,
            << <<"uri", ZString>>,
               <<"protocol_type", ZEnum({<<"RequestResponse">>, <<"BidiStream">>})>>,
               <<"http_version", ZString>>,
               <<"created_at", ZString>>,
               <<"min_protocol_version", ZInt>>,
               <<"max_protocol_version", ZInt>>,
               <<"additional_headers", ZOptional(ZRecord(ZString))>> >>)

LambdaDeploymentSchema ==
    ZExtend(DeploymentBaseSchema,
            << <<"arn", ZString>>,
               <<"assume_role_arn", ZOptional(ZNullable(ZString))>>,
               <<"created_at", ZString>>,
               <<"min_protocol_version", ZInt>>,
               <<"max_protocol_version", ZInt>>,
               <<"additional_headers", ZOptional(ZRecord(ZString))>> >>)

\* One flat schema with the fields of both kinds optional, in place of the union.
DeploymentResponseFlat ==
    ZExtend(DeploymentBaseSchema,
            << <<"uri", ZOptional(ZString)>>,
               <<"protocol_type", ZOptional(ZEnum({<<"RequestResponse">>, <<"BidiStream">>}))>>,
               <<"http_version", ZOptional(ZString)>>,
               <<"arn", ZOptional(ZString)>>,
               <<"assume_role_arn", ZOptional(ZNullable(ZString))>>,
               <<"created_at", ZString>>,
               <<"min_protocol_version", ZInt>>,
               <<"max_protocol_version", ZInt>>,
               <<"additional_headers", ZOptional(ZRecord(ZString))>> >>)

DeploymentResponseSchema == ZUnion(<<HttpDeploymentSchema, LambdaDeploymentSchema>>)

ListDeploymentsResponseSchema ==
    ZObject(<< <<"deployments", ZArray(DeploymentResponseSchema)>> >>)

HandlerMetadataSchema ==
    ZObject(<< <<"name", ZString>>,
               <<"ty", ZOptional(ZNullable(ZEnum({<<"Exclusive">>, <<"Shared">>,
                                                  <<"Workflow">>})))>>,
               <<"documentation", ZOptional(ZNullable(ZString))>>,
               <<"metadata", ZOptional(ZRecord(ZString))>>,
               <<"input_description", ZString>>,
               <<"output_description", ZString>>,
               <<"input_json_schema", ZOptional(ZNullable(ZAny))>>,
               <<"output_json_schema", ZOptional(ZNullable(ZAny))>> >>)

ServiceMetadataSchema ==
    ZObject(<< <<"name", ZString>>,
               <<"handlers", ZArray(HandlerMetadataSchema)>>,
               <<"ty", ZEnum({<<"Service">>, <<"VirtualObject">>, <<"Workflow">>})>>,
               <<"documentation", ZOptional(ZNullable(ZString))>>,
               <<"metadata", ZOptional(ZRecord(ZString))>>,
               <<"deployment_id", ZString>>,
               <<"revision", ZIntMin(0)>>,
               <<"public", ZBoolean>>,
               <<"idempotency_retention", ZString>>,
               <<"workflow_completion_retention", ZOptional(ZNullable(ZString))>>,
               <<"inactivity_timeout", ZOptional(ZNullable(ZString))>>,
               <<"abort_timeout", ZOptional(ZNullable(ZString))>> >>)

ListServicesResponseSchema ==
    ZObject(<< <<"services", ZArray(ServiceMetadataSchema)>> >>)

\* A registration response whose services are not validated (z.array(z.any())).
RegisterDeploymentResponseLoose ==
    ZObject(<< <<"id", ZString>>, <<"services", ZArray(ZAny)>> >>)

RegisterDeploymentResponseSchema ==
    ZObject(<< <<"id", ZString>>, <<"services", ZArray(ServiceMetadataSchema)>> >>)

(***************************************************************************)
(* JS operators used by the client.                                        *)
(***************************************************************************)
\* ToBoolean(value)
Truthy(val) ==
    IF val.t = "undefined" \/ val.t = "null" THEN FALSE
    ELSE IF val.t = "bool" THEN val.v
    ELSE IF val.t = "num" THEN val.v # 0
    ELSE IF val.t = "str" THEN val.v # <<>>
    ELSE TRUE

\* a || b
OrElse(a, b) == IF Truthy(a) THEN a ELSE b

\* String(value), as a template literal writes a value.
ToText(val) ==
    IF val.t = "str" THEN val.v
    ELSE IF val.t = "num" THEN <<NumAtom(val.v)>>
    ELSE IF val.t = "bool" THEN (IF val.v THEN <<"true">> ELSE <<"false">>)
    ELSE IF val.t = "null" THEN <<"null">>
    ELSE IF val.t = "undefined" THEN <<"undefined">>
    ELSE IF val.t = "arr" THEN <<"[array]">>
    ELSE <<"[object Object]">>

\* A thrown value: every one the program meets is an instance of Error.
Err(name, message) == [name |-> name, message |-> message]
NoError == Err("none", <<>>)
SyntaxErrorOf(text) == Err("SyntaxError", <<"Unexpected token in JSON">>)
TypeErrorOf(what) == Err("TypeError", <<what>>)
ZodErrorOf(what) == Err("ZodError", <<"validation failed: ", what>>)

\* The completion of a call: a returned value or a thrown error, with the number
\* of times the call tried to parse the response body as JSON.
Return(val, parses) == [ok |-> TRUE, val |-> val, error |-> NoError, parses |-> parses]
Throw(error, parses) == [ok |-> FALSE, val |-> JUndef, error |-> error, parses |-> parses]

(***************************************************************************)
(* The HTTP boundary.  A response is [status, statusText, contentLength,   *)
(* contentType, body]; contentLength and contentType are what headers.get  *)
(* answers, null for a header the response does not carry.  net is what    *)
(* fetch() settles with: a response, or a rejection when the runtime       *)
(* cannot be reached.                                                      *)
(***************************************************************************)
RESTATE_API_BASE == "http://localhost:9070"
USER_AGENT == "restate-mcp-server/0.0.1"

ResponseOk(r) == r.status >= 200 /\ r.status <= 299

NoNet == [kind |-> "none"]
Responded(r) == [kind |-> "response", response |-> r]
Rejected(error) == [kind |-> "rejected", error |-> error]

\* Headers that the headers of the options replace as a whole.
MergeHeadersReplace(a, b) == IF Len(b) > 0 THEN b ELSE a

\* { ...a, ...b }: the headers of b override the headers of a with the same name.
MergeHeaders(a, b) ==
    SelectSeq(a, LAMBDA h : \A i \in 1..Len(b) : b[i][1] # h[1]) \o b

NoBodyText == <<"(no body)">>
HttpRequest(method, url, headers, body) ==
    [method |-> method, url |-> url, headers |-> headers, body |-> body]
NoRequest == HttpRequest("none", <<>>, <<>>, NoBodyText)

\* fetchWithOptions, up to its fetch(): the request it sends.
FetchRequest(url, method, headers, body) ==
    HttpRequest(method, url, MergeHeaders(<< <<"User-Agent", USER_AGENT>> >>, headers), body)

JsonHeaders == << <<"Content-Type", "application/json">> >>

\* `${response.status} ${response.statusText}: ${text}`
StatusLine(r, text) == <<ToString(r.status), Space, r.statusText, ": ">> \o text

\* The try block of the !response.ok branch, p being JSON.parse(errorText):
\* what the block throws.
ErrorInTry(r, p) ==
    IF ~p.ok THEN SyntaxErrorOf(r.body)
    ELSE IF p.val.t = "null" THEN TypeErrorOf("Cannot read properties of null")
    ELSE Err("Error", StatusLine(r, ToText(OrElse(Get(p.val, "message"), JStr(r.body)))))

\* A catch clause that lets the error of the try block through.
CatchInnerRethrow(r, thrown) == thrown

\* The catch clause of the !response.ok branch: it takes whatever the try block
\* threw, the Error built from the parsed message included, and throws the raw
\* text.
CatchInner(r, thrown) == Err("Error", StatusLine(r, r.body))

RemoteError(r) == CatchInner(r, ErrorInTry(r, JSONParse(r.body)))

\* A test that looks at the status alone.
NoContentByStatus(r) == r.status = 204

\* The test that short-circuits a response to null.
NoContent(r) == r.status = 204 \/ r.contentLength = JStr(<<"0">>)

\* A reader that falls back to the raw text of a body that is not JSON.
ResponseJsonOrText(r, p) == IF p.ok THEN Return(p.val, 1) ELSE Return(JStr(r.body), 1)

\* return await response.json()
ResponseJson(r, p) == IF p.ok THEN Return(p.val, 1) ELSE Throw(SyntaxErrorOf(r.body), 1)

\* fetchWithOptions, the body of its try block after fetch() settled.
FetchTry(net) ==
    IF net.kind = "rejected" THEN Throw(net.error, 0)
    ELSE IF ~ResponseOk(net.response) THEN Throw(RemoteError(net.response), 1)
    ELSE IF NoContent(net.response) THEN Return(JNull, 0)
    ELSE ResponseJson(net.response, JSONParse(net.response.body))

\* The outer catch of fetchWithOptions wraps every error thrown in the try block.
CatchOuter(url, t) ==
    IF t.ok THEN t
    ELSE Throw(Err("Error", <<"Failed to fetch ">> \o url \o <<": ">> \o t.error.message),
               t.parses)

fetchWithOptions(url, net) == CatchOuter(url, FetchTry(net))

(***************************************************************************)
(* restateApi: each operation is its request and, once fetch() has         *)
(* settled with net, its completion.                                       *)
(***************************************************************************)
DeploymentsUrl == <<RESTATE_API_BASE, "/deployments">>
DeploymentUrl(deploymentId) == DeploymentsUrl \o <<"/">> \o deploymentId
ServicesUrl == <<RESTATE_API_BASE, "/services">>
ServiceUrl(serviceName) == ServicesUrl \o <<"/">> \o serviceName
QueryUrl == <<RESTATE_API_BASE, "/query">>

\* schema.parse(data), z being its answer, after a fetch that took `parses`.
Validated(z, parses) ==
    IF z.ok THEN Return(z.val, parses) ELSE Throw(ZodErrorOf("response"), parses)

\* const data = await fetchWithOptions(...); return schema.parse(data)
Validate(schema, fetched) ==
    IF ~fetched.ok THEN fetched
    ELSE Validated(ZodParse(schema, fetched.val), fetched.parses)

listDeploymentsRequest == FetchRequest(DeploymentsUrl, "GET", <<>>, NoBodyText)
\* A listing validated as the list of services.
listDeploymentsAsServices(net) ==
    Validate(ListServicesResponseSchema, fetchWithOptions(DeploymentsUrl, net))
listDeployments(net) ==
    Validate(ListDeploymentsResponseSchema, fetchWithOptions(DeploymentsUrl, net))

getDeploymentRequest(deploymentId) ==
    FetchRequest(DeploymentUrl(deploymentId), "GET", <<>>, NoBodyText)
getDeployment(deploymentId, net) ==
    Validate(DeploymentResponseSchema, fetchWithOptions(DeploymentUrl(deploymentId), net))

createDeploymentRequest(request) ==
    FetchRequest(DeploymentsUrl, "POST", JsonHeaders, JSONStringify(request, 0))
createDeployment(request, net) ==
    Validate(RegisterDeploymentResponseSchema, fetchWithOptions(DeploymentsUrl, net))

\* A URL that forces every delete.
DeleteUrlForced(deploymentId, force) == DeploymentUrl(deploymentId) \o <<"?force=", "true">>

DeleteUrl(deploymentId, force) ==
    DeploymentUrl(deploymentId) \o <<"?force=">> \o ToText(force)
deleteDeploymentRequest(deploymentId, force) ==
    FetchRequest(DeleteUrl(deploymentId, force), "DELETE", <<>>, NoBodyText)
\* A delete that reports success whatever the gateway answered.
DeletedAnyway(f) == Return(JObj(<< <<"success", JBool(TRUE)>> >>), f.parses)

\* await fetchWithOptions(...); return { success: true }
Deleted(f) == IF f.ok THEN Return(JObj(<< <<"success", JBool(TRUE)>> >>), f.parses) ELSE f
deleteDeployment(deploymentId, force, net) ==
    Deleted(fetchWithOptions(DeleteUrl(deploymentId, force), net))

listServicesRequest == FetchRequest(ServicesUrl, "GET", <<>>, NoBodyText)
listServices(net) ==
    Validate(ListServicesResponseSchema, fetchWithOptions(ServicesUrl, net))

getServiceRequest(serviceName) ==
    FetchRequest(ServiceUrl(serviceName), "GET", <<>>, NoBodyText)
getService(serviceName, net) ==
    Validate(ServiceMetadataSchema, fetchWithOptions(ServiceUrl(serviceName), net))

modifyServiceRequest(serviceName, options) ==
    FetchRequest(ServiceUrl(serviceName), "PATCH", JsonHeaders, JSONStringify(options, 0))
modifyService(serviceName, options, net) ==
    Validate(ServiceMetadataSchema, fetchWithOptions(ServiceUrl(serviceName), net))

\* A request that sends the query text itself as the body.
queryKVStateRequestRaw(query) ==
    HttpRequest("POST", QueryUrl,
                << <<"Content-Type", "application/json">>,
                   <<"User-Agent", USER_AGENT>>,
                   <<"Accept", "application/json">> >>,
                query)

\* queryKVState calls fetch() itself.
queryKVStateRequest(query) ==
    HttpRequest("POST", QueryUrl,
                << <<"Content-Type", "application/json">>,
                   <<"User-Agent", USER_AGENT>>,
                   <<"Accept", "application/json">> >>,
                JSONStringify(JObj(<< <<"query", JStr(query)>> >>), 0))

PreviewLength == 50

\* JSON.parse(textResponse), p being its answer, and the catch around it.
QueryJson(r, p) ==
    IF p.ok THEN Return(p.val, 1)
    ELSE Throw(Err("Error", <<"Invalid JSON response: ">>
                            \o Substring0(r.body, PreviewLength) \o <<"...">>), 1)

\* queryKVState, the body of its try block after fetch() settled.
QueryTry(net) ==
    IF net.kind = "rejected" THEN Throw(net.error, 0)
    ELSE IF ~ResponseOk(net.response)
    THEN Throw(Err("Error", <<"Server error: ", ToString(net.response.status), Space,
                              net.response.statusText, " - ">> \o net.response.body), 0)
    ELSE IF Truthy(net.response.contentType)
            /\ ~Contains(net.response.contentType.v, <<"application/json">>)
    THEN Throw(Err("Error", <<"Unexpected response type: ">>
                            \o net.response.contentType.v), 0)
    ELSE QueryJson(net.response, JSONParse(net.response.body))

\* The catch of queryKVState wraps every error thrown in the try block.
QueryCatch(t) ==
    IF t.ok THEN t
    ELSE Throw(Err("Error", <<"SQL query error: ">> \o t.error.message), t.parses)

queryKVState(net) == QueryCatch(QueryTry(net))

RunningQuery == <<"SELECT * FROM sys_invocation WHERE status = ", "'", "Running", "'">>
listInvocationsRequest == queryKVStateRequest(RunningQuery)

\* A projection that leaves completed_at as the row has it.
InvocationOfRowAsIs(row, now) ==
    JObj(<< <<"id", OrElse(Get(row, "id"), JStr(<<>>))>>,
            <<"service", OrElse(Get(row, "service_name"), JStr(<<>>))>>,
            <<"handler", OrElse(Get(row, "handler_name"), JStr(<<>>))>>,
            <<"status", OrElse(Get(row, "status"), JStr(<<"Running">>))>>,
            <<"started_at", OrElse(Get(row, "started_at"), JStr(now))>>,
            <<"completed_at", Get(row, "completed_at")>>,
            <<"object_key", OrElse(Get(row, "object_key"), JUndef)>> >>)

\* The invocation listInvocations makes of one row; now is new Date().toISOString().
InvocationOfRow(row, now) ==
    JObj(<< <<"id", OrElse(Get(row, "id"), JStr(<<>>))>>,
            <<"service", OrElse(Get(row, "service_name"), JStr(<<>>))>>,
            <<"handler", OrElse(Get(row, "handler_name"), JStr(<<>>))>>,
            <<"status", OrElse(Get(row, "status"), JStr(<<"Running">>))>>,
            <<"started_at", OrElse(Get(row, "started_at"), JStr(now))>>,
            <<"completed_at", OrElse(Get(row, "completed_at"), JNull)>>,
            <<"object_key", OrElse(Get(row, "object_key"), JUndef)>> >>)

\* Reading a property of null or undefined throws a TypeError.
Unreadable(val) == val.t = "null" \/ val.t = "undefined"

\* (result.rows || []).map(...), rows being result.rows || [].
MapRows(rows, now, parses) ==
    IF rows.t # "arr" THEN Throw(TypeErrorOf("map is not a function"), parses)
    ELSE IF \E i \in 1..Len(rows.v) : Unreadable(rows.v[i])
    THEN Throw(TypeErrorOf("Cannot read properties of null"), parses)
    ELSE Return(JObj(<< <<"invocations",
                          JArr([i \in 1..Len(rows.v) |-> InvocationOfRow(rows.v[i], now)])>> >>),
                parses)

\* listInvocations after its queryKVState settled with q.
InvocationsOf(q, now) ==
    IF ~q.ok THEN q
    ELSE IF Unreadable(q.val)
    THEN Throw(TypeErrorOf("Cannot read properties of null"), q.parses)
    ELSE MapRows(OrElse(Get(q.val, "rows"), JArr(<<>>)), now, q.parses)

listInvocations(net, now) == InvocationsOf(queryKVState(net), now)

(***************************************************************************)
(* The tools registered with server.tool(name, description, shape,         *)
(* handler).  The MCP server answers a call of a name that is not          *)
(* registered, or of arguments its shape rejects, with a protocol error    *)
(* and does not run a handler; the error a handler throws becomes an       *)
(* isError result carrying the error's message.                            *)
(***************************************************************************)
RegisteredTools ==
    {"list-deployments", "get-deployment", "create-deployment", "delete-deployment",
     "list-services", "get-service", "modify-service", "query"}

\* The tools the "Available Tools" list of restateToolsDocContent names.
GuideTools ==
    {"list-deployments", "get-deployment", "create-deployment", "delete-deployment",
     "list-services", "get-service", "modify-service", "list-invocations", "query"}

ToolShape(tool) ==
    IF tool = "get-deployment" THEN << <<"deploymentId", ZString>> >>
    ELSE IF tool = "create-deployment"
    THEN << <<"uri", ZString>>,
            <<"additionalHeaders", ZOptional(ZRecord(ZString))>>,
            <<"useHttp11", ZOptional(ZBoolean)>>,
            <<"force", ZOptional(ZBoolean)>> >>
    ELSE IF tool = "delete-deployment"
    THEN << <<"deploymentId", ZString>>, <<"force", ZDefault(ZBoolean, JBool(TRUE))>> >>
    ELSE IF tool = "get-service" THEN << <<"serviceName", ZString>> >>
    ELSE IF tool = "modify-service"
    THEN << <<"serviceName", ZString>>,
            <<"isPublic", ZOptional(ZBoolean)>>,
            <<"idempotencyRetention", ZOptional(ZString)>> >>
    ELSE IF tool = "query" THEN << <<"query", ZString>> >>
    ELSE <<>>

ToolArguments(tool, args) == ZodParse(ZObject(ToolShape(tool)), args)

TextBlock(text) == [type |-> "text", text |-> text]
NoOutcome ==
    [kind |-> "none", content |-> <<>>, value |-> JUndef, error |-> NoError]
Success(value, content) ==
    [kind |-> "result", content |-> content, value |-> value, error |-> NoError]
Failure(error) ==
    [kind |-> "error", content |-> <<TextBlock(error.message)>>, value |-> JUndef,
     error |-> error]

\* A content made with String(result) instead of JSON.stringify.
JsonContentAsString(result) == <<TextBlock(ToText(result))>>

\* The content every tool but delete-deployment returns for its client result.
JsonContent(result) == <<TextBlock(JSONStringify(result, 2))>>

\* create-deployment: the request object its handler builds from its arguments.
CreateDeploymentBody(a) ==
    JObj(<< <<"uri", Get(a, "uri")>>,
            <<"additional_headers", Get(a, "additionalHeaders")>>,
            <<"use_http_11", Get(a, "useHttp11")>>,
            <<"force", Get(a, "force")>> >>)

\* An options object built with truthiness tests (if (isPublic) ...).
ModifyServiceOptionsIfTruthy(a) ==
    JObj((IF Truthy(Get(a, "isPublic"))
          THEN << <<"public", Get(a, "isPublic")>> >> ELSE <<>>)
         \o (IF Truthy(Get(a, "idempotencyRetention"))
             THEN << <<"idempotency_retention", Get(a, "idempotencyRetention")>> >>
             ELSE <<>>))

\* modify-service: the options object its handler builds from its arguments.
ModifyServiceOptions(a) ==
    JObj((IF Get(a, "isPublic").t # "undefined"
          THEN << <<"public", Get(a, "isPublic")>> >> ELSE <<>>)
         \o (IF Get(a, "idempotencyRetention").t # "undefined"
             THEN << <<"idempotency_retention", Get(a, "idempotencyRetention")>> >>
             ELSE <<>>))

\* A content that echoes the client result, as the other tools do.
DeleteDeploymentEcho(a, result) == <<TextBlock(JSONStringify(result, 2))>>

\* delete-deployment: the content its handler returns.
DeleteDeploymentContent(a, result) ==
    <<TextBlock(<<"Successfully deleted deployment: ">> \o Get(a, "deploymentId").v)>>

(***************************************************************************)
(* Inputs: the arguments a caller passes and the responses the runtime     *)
(* gives.                                                                  *)
(***************************************************************************)
MaxMsgLen == 2
MaxDeployments == 2
MaxRows == 2
\* The calls the transport runs at a time.
MaxCalls == 2
Slots == 1..MaxCalls

SeqsUpTo(S, n) == UNION {[1..k -> S] : k \in 0..n}
Obj1(k, val) == JObj(<< <<k, val>> >>)
T(word) == JStr(<<word>>)

\* The characters of a message: one plain, and the two JSON escapes.
MsgAlphabet == {"x", Quote, Backslash}
Messages == SeqsUpTo(MsgAlphabet, MaxMsgLen)

DeploymentIds == {<<"dep_1">>, <<"dep_2">>}
ServiceNames == {<<"Greeter">>}

\* An optional argument or field: absent, or one of the values.
Optionally(k, vals) == {<<>>} \cup {<< <<k, val>> >> : val \in vals}

ToolInputs(tool) ==
    IF tool = "get-deployment"
    THEN {JObj(<<>>)} \cup {Obj1("deploymentId", JStr(d)) : d \in DeploymentIds}
    ELSE IF tool = "create-deployment"
    THEN {JObj(u \o h \o f) :
            u \in {<< <<"uri", T("http://svc:9080")>> >>, << <<"uri", T("http://svc:9081")>> >>,
                   << <<"arn", T("arn:aws:fn")>> >>},
            h \in Optionally("additionalHeaders", {Obj1("x-token", T("t"))})
                  \cup Optionally("useHttp11", {JBool(TRUE)}),
            f \in Optionally("force", {JBool(TRUE), JBool(FALSE)})}
    ELSE IF tool = "delete-deployment"
    THEN {JObj(<< <<"deploymentId", JStr(d)>> >> \o f) :
            d \in DeploymentIds, f \in Optionally("force", {JBool(TRUE), JBool(FALSE)})}
    ELSE IF tool = "get-service"
    THEN {Obj1("serviceName", JStr(n)) : n \in ServiceNames}
    ELSE IF tool = "modify-service"
    THEN {JObj(<< <<"serviceName", JStr(n)>> >> \o p \o r) :
            n \in ServiceNames,
            p \in Optionally("isPublic", {JBool(TRUE), JBool(FALSE), JNull}),
            r \in Optionally("idempotencyRetention", {T("1h"), JStr(<<>>)})}
    ELSE IF tool = "query"
    THEN {JObj(<<>>), Obj1("query", T("SELECT * FROM state")),
          Obj1("query", JStr(<<"SELECT ", Quote, "key", Quote, " FROM state">>))}
    ELSE IF tool = "cancel-invocation"
    THEN {JObj(<< <<"invocationId", T("inv_1")>>, <<"mode", T("Cancel")>> >>)}
    ELSE {JObj(<<>>)}

\* Names a caller may call that no server.tool() registers.
OtherTools == {"list-invocations", "cancel-invocation"}

\* Error bodies: JSON with a message, JSON without one, and text that is not JSON.
ErrorValues ==
    {Obj1("message", JStr(m)) : m \in Messages}
    \cup {Obj1("code", JNum(1)), Obj1("message", JNum(0)), JNull}
RawTexts == {<<>>, <<"oops">>, <<"x", Quote>>, <<"{", "oops">>}

NameRev(name, revision) == JObj(<< <<"name", T(name)>>, <<"revision", JNum(revision)>> >>)

\* A deployment as the runtime may write it: the base fields, then any of the
\* HTTP fields and of the Lambda fields.
DeploymentValues ==
    {JObj(<< <<"id", T("dep_1")>>, <<"services", JArr(<<NameRev("Greeter", 1)>>)>> >>
          \o u \o p
          \o << <<"http_version", T("HTTP/2.0")>>,
                <<"created_at", T("2025-04-01T00:00:00Z")>>,
                <<"min_protocol_version", JNum(1)>>,
                <<"max_protocol_version", JNum(3)>> >>
          \o a \o r) :
        u \in Optionally("uri", {T("http://svc:9080/")}),
        p \in Optionally("protocol_type", {T("BidiStream"), T("Other")}),
        a \in Optionally("arn", {T("arn:aws:fn")}),
        r \in Optionally("assume_role_arn", {JNull, T("arn:aws:role")})}

HttpDeployment ==
    JObj(<< <<"id", T("dep_1")>>, <<"services", JArr(<<NameRev("Greeter", 1)>>)>>,
            <<"uri", T("http://svc:9080/")>>, <<"protocol_type", T("RequestResponse")>>,
            <<"http_version", T("HTTP/2.0")>>, <<"created_at", T("2025-04-01T00:00:00Z")>>,
            <<"min_protocol_version", JNum(1)>>, <<"max_protocol_version", JNum(3)>>,
            <<"additional_headers", Obj1("x-token", T("t"))>> >>)
LambdaDeployment ==
    JObj(<< <<"id", T("dep_2")>>, <<"services", JArr(<<>>)>>,
            <<"arn", T("arn:aws:fn")>>, <<"created_at", T("2025-04-01T00:00:00Z")>>,
            <<"min_protocol_version", JNum(1)>>, <<"max_protocol_version", JNum(3)>> >>)
BrokenDeployment == JObj(<< <<"id", T("dep_3")>>, <<"services", JArr(<<NameRev("Greeter", -1)>>)>> >>)

DeploymentLists ==
    {Obj1("deployments", JArr(l)) :
        l \in SeqsUpTo({HttpDeployment, LambdaDeployment, BrokenDeployment}, MaxDeployments)}

HandlerValue ==
    JObj(<< <<"name", T("greet")>>, <<"ty", JNull>>,
            <<"input_description", T("one of [\"none\"]")>>,
            <<"output_description", T("value")>>,
            <<"input_json_schema", Obj1("type", T("string"))>> >>)

\* Service metadata as the runtime writes it, with any of its nullable fields.
ServiceValues ==
    {JObj(<< <<"name", T("Greeter")>>, <<"handlers", JArr(<<HandlerValue>>)>>,
             <<"ty", T("Service")>> >> \o d
          \o << <<"deployment_id", T("dep_1")>>, <<"revision", JNum(1)>>,
                <<"public", JBool(TRUE)>> >> \o i) :
        d \in Optionally("documentation", {JNull, JStr(<<"says ", Quote, "hi", Quote>>)}),
        i \in Optionally("idempotency_retention", {T("1day")})}

\* Service metadata whose metadata maps and handler documentation are absent,
\* null or present.
HandlerWith(d, m) ==
    JObj(<< <<"name", T("greet")>> >> \o d \o m
         \o << <<"input_description", T("none")>>, <<"output_description", T("value")>> >>)
ServiceWith(handler, m) ==
    JObj(<< <<"name", T("Greeter")>>, <<"handlers", JArr(<<handler>>)>>,
            <<"ty", T("Service")>> >> \o m
         \o << <<"deployment_id", T("dep_1")>>, <<"revision", JNum(1)>>,
               <<"public", JBool(TRUE)>>, <<"idempotency_retention", T("1day")>> >>)
MetadataMaps == {JNull, Obj1("team", T("a"))}
AnnotatedServices ==
    {ServiceWith(HandlerWith(<<>>, <<>>), m) : m \in Optionally("metadata", MetadataMaps)}
    \cup {ServiceWith(HandlerWith(<<>>, m), <<>>) : m \in Optionally("metadata", MetadataMaps)}
    \cup {ServiceWith(HandlerWith(d, <<>>), <<>>) :
            d \in Optionally("documentation", {JNull, T("greets")})}

ServiceLists == {Obj1("services", JArr(l)) : l \in SeqsUpTo(ServiceValues, 1)}

\* The answers to a registration: services as full metadata, or as the
\* (name, revision) pairs a deployment lists.
RegisterValues ==
    {JObj(<< <<"id", T("dep_1")>>, <<"services", JArr(l)>> >>) :
        l \in SeqsUpTo(ServiceValues, 1) \cup {<<NameRev("Greeter", 1)>>}}

\* Rows of sys_invocation: schemaless, any column may be missing or empty.
FullRow ==
    << <<"id", T("inv_1")>>, <<"service_name", T("Greeter")>>,
       <<"handler_name", T("greet")>>, <<"status", T("running")>>,
       <<"started_at", T("2025-04-01T00:00:00Z")>>,
       <<"completed_at", T("2025-04-01T00:00:01Z")>>, <<"object_key", T("k")>> >>
RowValues ==
    {JObj(FullRow),
     JObj(SubSeq(FullRow, 1, 5)),
     JObj(SubSeq(FullRow, 4, 7)),
     JObj(<< <<"id", JStr(<<>>)>>, <<"completed_at", JNull>>, <<"status", JNum(0)>> >>),
     JObj(<<>>)}
QueryValues ==
    {Obj1("rows", JArr(l)) : l \in SeqsUpTo(RowValues, MaxRows)}
    \cup {JObj(<<>>), Obj1("rows", JArr(<<JNull>>)), Obj1("rows", T("none"))}

Bodies ==
    {JSONStringify(val, 0) :
        val \in ErrorValues \cup DeploymentValues \cup DeploymentLists \cup ServiceValues
                \cup ServiceLists \cup RegisterValues \cup QueryValues}
    \cup RawTexts

\* Payloads that are not JSON, of one character an atom: as long as the preview
\* of queryKVState, one longer, and two longer.
LongText(n) == [i \in 1..n |-> IF i < n THEN "x" ELSE "y"]
LongTexts == {LongText(PreviewLength + k) : k \in 0..2}

\* A media type other than JSON whose name has application/json in it.
JsonSeqType == JStr(<<"application/json", "-seq">>)
ContentTypes == {JNull, T("text/plain"), JStr(<<"application/json", "; charset=utf-8">>)}

\* A response: 204 and a declared length of 0 come with an empty body.
Response(status, statusText, contentLength, contentType, body) ==
    [status |-> status, statusText |-> statusText, contentLength |-> contentLength,
     contentType |-> contentType, body |-> body]
Responses ==
    {Response(st[1], st[2], JNull, ct, b) :
        st \in {<<200, "OK">>, <<500, "Internal Server Error">>},
        ct \in ContentTypes, b \in Bodies}
    \cup {Response(st[1], st[2], cl, JNull, <<>>) :
            st \in {<<200, "OK">>, <<204, "No Content">>, <<404, "Not Found">>},
            cl \in {JNull, T("0")}}
    \cup {Response(200, "OK", JNull, JStr(<<"application/json", "; charset=utf-8">>), b) :
            b \in LongTexts}
    \cup {Response(200, "OK", JNull, JsonSeqType, b) :
            b \in {JSONStringify(Obj1("rows", JArr(<<>>)), 0), <<"oops">>}}
    \cup {Response(200, "OK", JNull, T("application/json"), JSONStringify(val, 0)) :
            val \in AnnotatedServices}

\* new Date().toISOString()
Clock == {<<"2025-04-02T00:00:00.000Z">>}

(***************************************************************************)
(* The state: one tool call at a time, from the call to its outcome.       *)
(***************************************************************************)
VARIABLES
    phase,          \* "idle", "sent" (awaiting fetch), "settled", "done"
    call,           \* [tool, args] of the call in progress
    request,        \* the HTTP request the call sent
    net,            \* what fetch() settled with
    outcome,        \* what the caller got
    parseAttempts,  \* times the call tried to parse the response body as JSON
    requestCount,   \* HTTP requests the call sent
    deployments,    \* the deployments the runtime has registered
    inflight        \* the calls the transport interleaves, each with its own frame

vars ==
    <<phase, call, request, net, outcome, parseAttempts, requestCount, deployments,
      inflight>>

NoCall == [tool |-> "none", args |-> JObj(<<>>), validated |-> JUndef]
\* restateApi.listInvocations is called directly: no tool wraps it.
ListInvocationsCall ==
    [tool |-> "restateApi.listInvocations", args |-> JObj(<<>>), validated |-> JUndef]

\* The frame of a call the transport has not started: every call has its own
\* url, response and result, none of them a variable of the module.
IdleFlight ==
    [phase |-> "idle", call |-> NoCall, request |-> NoRequest, net |-> NoNet,
     outcome |-> NoOutcome]

Init ==
    /\ phase = "idle"
    /\ call = NoCall
    /\ request = NoRequest
    /\ net = NoNet
    /\ outcome = NoOutcome
    /\ parseAttempts = 0
    /\ requestCount = 0
    /\ deployments = <<>>
    /\ inflight = [i \in Slots |-> IdleFlight]

\* A call that ends before any handler runs.
Refuse(tool, args, error) ==
    /\ phase = "idle"
    /\ phase' = "done"
    /\ call' = [tool |-> tool, args |-> args, validated |-> JUndef]
    /\ outcome' = Failure(error)
    /\ UNCHANGED <<request, net, parseAttempts, requestCount, deployments, inflight>>

\* A handler that sends its request a second time.
SendAgain(c, req) ==
    /\ phase = "idle"
    /\ phase' = "sent"
    /\ call' = c
    /\ request' = req
    /\ requestCount' = requestCount + 2
    /\ UNCHANGED <<net, outcome, parseAttempts, deployments, inflight>>

\* A call whose handler runs up to its fetch().
Send(c, req) ==
    /\ phase = "idle"
    /\ phase' = "sent"
    /\ call' = c
    /\ request' = req
    /\ requestCount' = requestCount + 1
    /\ UNCHANGED <<net, outcome, parseAttempts, deployments, inflight>>

\* tools/call for a registered tool: the server validated the arguments args
\* against the tool's shape, giving a, and runs the handler, which sends req.
CallTool(tool, args, a, req) ==
    IF a.ok
    THEN Send([tool |-> tool, args |-> args, validated |-> a.val], req)
    ELSE Refuse(tool, args, Err("McpError", <<"Invalid arguments for tool ", tool>>))

\* The handler resumes after fetch() settled: its client operation answered r,
\* and the handler returns content or throws r.error.
Settle(r, content) ==
    /\ outcome' = IF r.ok THEN Success(r.val, content) ELSE Failure(r.error)
    /\ parseAttempts' = r.parses
    /\ phase' = "done"
    /\ UNCHANGED <<call, request, net, requestCount, deployments, inflight>>

Settled(tool) == phase = "settled" /\ call.tool = tool
Arg(k) == Get(call.validated, k)

ListDeploymentsTool ==
    /\ phase = "idle"
    /\ \E args \in ToolInputs("list-deployments") :
           \E a \in {ToolArguments("list-deployments", args)} :
               CallTool("list-deployments", args, a,
                        listDeploymentsRequest)
ListDeploymentsReturn ==
    /\ Settled("list-deployments")
    /\ \E r \in {listDeployments(net)} :
           Settle(r, JsonContent(r.val))

GetDeploymentTool ==
    /\ phase = "idle"
    /\ \E args \in ToolInputs("get-deployment") :
           \E a \in {ToolArguments("get-deployment", args)} :
               CallTool("get-deployment", args, a,
                        getDeploymentRequest(Get(a.val, "deploymentId").v))
GetDeploymentReturn ==
    /\ Settled("get-deployment")
    /\ \E r \in {getDeployment(Arg("deploymentId").v, net)} :
           Settle(r, JsonContent(r.val))

CreateDeploymentTool ==
    /\ phase = "idle"
    /\ \E args \in ToolInputs("create-deployment") :
           \E a \in {ToolArguments("create-deployment", args)} :
               CallTool("create-deployment", args, a,
                        createDeploymentRequest(CreateDeploymentBody(a.val)))
CreateDeploymentReturn ==
    /\ Settled("create-deployment")
    /\ \E r \in {createDeployment(CreateDeploymentBody(call.validated), net)} :
           Settle(r, JsonContent(r.val))

DeleteDeploymentTool ==
    /\ phase = "idle"
    /\ \E args \in ToolInputs("delete-deployment") :
           \E a \in {ToolArguments("delete-deployment", args)} :
               CallTool("delete-deployment", args, a,
                        deleteDeploymentRequest(Get(a.val, "deploymentId").v, Get(a.val, "force")))
DeleteDeploymentReturn ==
    /\ Settled("delete-deployment")
    /\ \E r \in {deleteDeployment(Arg("deploymentId").v, Arg("force"), net)} :
           Settle(r, DeleteDeploymentContent(call.validated, r.val))

ListServicesTool ==
    /\ phase = "idle"
    /\ \E args \in ToolInputs("list-services") :
           \E a \in {ToolArguments("list-services", args)} :
               CallTool("list-services", args, a,
                        listServicesRequest)
ListServicesReturn ==
    /\ Settled("list-services")
    /\ \E r \in {listServices(net)} :
           Settle(r, JsonContent(r.val))

GetServiceTool ==
    /\ phase = "idle"
    /\ \E args \in ToolInputs("get-service") :
           \E a \in {ToolArguments("get-service", args)} :
               CallTool("get-service", args, a,
                        getServiceRequest(Get(a.val, "serviceName").v))
GetServiceReturn ==
    /\ Settled("get-service")
    /\ \E r \in {getService(Arg("serviceName").v, net)} :
           Settle(r, JsonContent(r.val))

ModifyServiceTool ==
    /\ phase = "idle"
    /\ \E args \in ToolInputs("modify-service") :
           \E a \in {ToolArguments("modify-service", args)} :
               CallTool("modify-service", args, a,
                        modifyServiceRequest(Get(a.val, "serviceName").v, ModifyServiceOptions(a.val)))
ModifyServiceReturn ==
    /\ Settled("modify-service")
    /\ \E r \in {modifyService(Arg("serviceName").v, ModifyServiceOptions(call.validated), net)} :
           Settle(r, JsonContent(r.val))

QueryTool ==
    /\ phase = "idle"
    /\ \E args \in ToolInputs("query") :
           \E a \in {ToolArguments("query", args)} :
               CallTool("query", args, a,
                        queryKVStateRequest(Get(a.val, "query").v))
QueryReturn ==
    /\ Settled("query")
    /\ \E r \in {queryKVState(net)} :
           Settle(r, JsonContent(r.val))

\* tools/call for a name no server.tool() registered.
UnknownTool ==
    /\ phase = "idle"
    /\ \E tool \in (OtherTools \cup GuideTools) \ RegisteredTools :
           \E args \in ToolInputs(tool) :
               Refuse(tool, args, Err("McpError", <<"Tool ", tool, " not found">>))

\* restateApi.listInvocations(), up to the fetch() of its queryKVState.
ListInvocations ==
    /\ phase = "idle"
    /\ Send(ListInvocationsCall, listInvocationsRequest)

ListInvocationsReturn ==
    /\ Settled("restateApi.listInvocations")
    /\ \E now \in Clock : \E r \in {listInvocations(net, now)} :
           Settle(r, <<>>)

\* The runtime answers the request.
RuntimeResponds ==
    /\ phase = "sent"
    /\ \E r \in Responses : net' = Responded(r)
    /\ phase' = "settled"
    /\ UNCHANGED <<call, request, outcome, parseAttempts, requestCount, deployments, inflight>>

\* The runtime cannot be reached: fetch() rejects.
\* A gateway that sends the request again when fetch() rejects.
FetchRetried ==
    /\ phase = "sent"
    /\ requestCount < 3
    /\ requestCount' = requestCount + 1
    /\ UNCHANGED <<phase, call, request, net, outcome, parseAttempts, deployments,
                   inflight>>

FetchFails ==
    /\ phase = "sent"
    /\ net' = Rejected(TypeErrorOf("fetch failed"))
    /\ phase' = "settled"
    /\ UNCHANGED <<call, request, outcome, parseAttempts, requestCount, deployments, inflight>>

\* The call is over; the server keeps nothing of it.
Forget ==
    /\ phase = "done"
    /\ phase' = "idle"
    /\ call' = NoCall
    /\ request' = NoRequest
    /\ net' = NoNet
    /\ outcome' = NoOutcome
    /\ parseAttempts' = 0
    /\ requestCount' = 0
    /\ UNCHANGED <<deployments, inflight>>

Next ==
    \/ ListDeploymentsTool \/ ListDeploymentsReturn
    \/ GetDeploymentTool \/ GetDeploymentReturn
    \/ CreateDeploymentTool \/ CreateDeploymentReturn
    \/ DeleteDeploymentTool \/ DeleteDeploymentReturn
    \/ ListServicesTool \/ ListServicesReturn
    \/ GetServiceTool \/ GetServiceReturn
    \/ ModifyServiceTool \/ ModifyServiceReturn
    \/ QueryTool \/ QueryReturn
    \/ UnknownTool
    \/ ListInvocations \/ ListInvocationsReturn
    \/ RuntimeResponds \/ FetchFails
    \/ Forget

Spec == Init /\ [][Next]_vars

(***************************************************************************)
(* A session against a running runtime, as the end-to-end test has it: the *)
(* runtime keeps the deployments registered with it and answers each       *)
(* request from them.                                                      *)
(***************************************************************************)
JsonResponse(status, statusText, val) ==
    Response(status, statusText, JNull, T("application/json"), JSONStringify(val, 0))
EmptyResponse(status, statusText) == Response(status, statusText, T("0"), JNull, <<>>)
NotFound == JsonResponse(404, "Not Found", Obj1("message", T("deployment not found")))

\* The deployment the runtime keeps for a registered uri.
StoredDeployment(id, uri) ==
    JObj(<< <<"id", JStr(id)>>, <<"services", JArr(<<NameRev("Greeter", 1)>>)>>,
            <<"uri", uri>>, <<"protocol_type", T("RequestResponse")>>,
            <<"http_version", T("HTTP/2.0")>>, <<"created_at", T("2025-04-01T00:00:00Z")>>,
            <<"min_protocol_version", JNum(1)>>, <<"max_protocol_version", JNum(3)>>,
            <<"ingress_url", T("http://localhost:8080")>> >>)
\* The service metadata the runtime answers a registration with.
DiscoveredService(id) ==
    JObj(<< <<"name", T("Greeter")>>, <<"handlers", JArr(<<HandlerValue>>)>>,
            <<"ty", T("Service")>>, <<"deployment_id", JStr(id)>>, <<"revision", JNum(1)>>,
            <<"public", JBool(TRUE)>>, <<"idempotency_retention", T("1day")>> >>)
RegisteredAs(id) ==
    JsonResponse(201, "Created",
                 JObj(<< <<"id", JStr(id)>>, <<"services", JArr(<<DiscoveredService(id)>>)>> >>))

IdsOf(store) == {Get(store[i], "id").v : i \in 1..Len(store)}
Without(store, id) == SelectSeq(store, LAMBDA d : Get(d, "id").v # id)
WithUri(store, uri) == SelectSeq(store, LAMBDA d : Get(d, "uri") = uri)
FreshId(store) == CHOOSE id \in DeploymentIds \ IdsOf(store) : TRUE
Served(response, store) == [response |-> response, store |-> store]

\* POST /deployments with the request object req: a uri already registered is
\* replaced under its id when forced and refused otherwise; a new uri gets a
\* fresh id while the runtime has room.
ServeRegister(req, store, same) ==
    IF Len(same) > 0
    THEN IF Get(req, "force") = JBool(TRUE)
         THEN Served(RegisteredAs(Get(same[1], "id").v), store)
         ELSE Served(JsonResponse(409, "Conflict", Obj1("message", T("already registered"))),
                     store)
    ELSE IF Len(store) < MaxDeployments /\ DeploymentIds \ IdsOf(store) # {}
    THEN Served(RegisteredAs(FreshId(store)),
                Append(store, StoredDeployment(FreshId(store), Get(req, "uri"))))
    ELSE Served(JsonResponse(500, "Internal Server Error", Obj1("message", T("full"))), store)

\* GET /deployments/{id}
ServeGet(store, id) ==
    IF id \in IdsOf(store)
    THEN Served(JsonResponse(200, "OK", SelectSeq(store, LAMBDA d : Get(d, "id").v = id)[1]),
                store)
    ELSE Served(NotFound, store)

\* DELETE /deployments/{id}
ServeDelete(store, id) ==
    IF id \in IdsOf(store)
    THEN Served(EmptyResponse(202, "Accepted"), Without(store, id))
    ELSE Served(NotFound, store)

\* The deployment a URL of /deployments/{id}[?force=...] names.
NamedBy(url) ==
    {id \in DeploymentIds :
        \/ url = DeploymentUrl(id)
        \/ \E f \in BOOLEAN : url = DeleteUrl(id, JBool(f))}

\* The rows of sys_invocation the runtime keeps: its status column holds one
\* of pending, scheduled, ready, running, backing-off, suspended, completed.
InvocationRow(id, status) ==
    JObj(<< <<"id", T(id)>>, <<"target_service_name", T("Greeter")>>,
            <<"target_handler_name", T("greet")>>, <<"status", T(status)>> >>)
SysInvocation == <<InvocationRow("inv_1", "running"), InvocationRow("inv_2", "completed")>>

\* POST /query: the rows a query selects. A query of the form
\* ... WHERE status = '<literal>' selects the rows whose status is the literal,
\* compared as strings; any other query of the sessions selects no row.
StatusLiteral(query) ==
    IF Len(query) = 4 /\ query[2] = "'" /\ query[4] = "'" THEN <<query[3]>> ELSE <<>>
ServeQuery(query) ==
    JsonResponse(200, "OK",
        Obj1("rows", JArr(SelectSeq(SysInvocation,
                                    LAMBDA row : Get(row, "status").v = StatusLiteral(query)))))

Serve(req, store) ==
    IF req.url = QueryUrl /\ req.method = "POST"
    THEN Served(ServeQuery(Get(JSONParse(req.body).val, "query").v), store)
    ELSE IF req.url = DeploymentsUrl /\ req.method = "GET"
    THEN Served(JsonResponse(200, "OK", Obj1("deployments", JArr(store))), store)
    ELSE IF req.url = DeploymentsUrl /\ req.method = "POST"
    THEN ServeRegister(JSONParse(req.body).val, store,
                       WithUri(store, Get(JSONParse(req.body).val, "uri")))
    ELSE IF NamedBy(req.url) = {} THEN Served(NotFound, store)
    ELSE IF req.method = "GET" THEN ServeGet(store, CHOOSE id \in NamedBy(req.url) : TRUE)
    ELSE IF req.method = "DELETE"
    THEN ServeDelete(store, CHOOSE id \in NamedBy(req.url) : TRUE)
    ELSE Served(NotFound, store)

\* The runtime answers the request from the deployments it keeps.
RuntimeServes ==
    /\ phase = "sent"
    /\ \E a \in {Serve(request, deployments)} :
           /\ net' = Responded(a.response)
           /\ deployments' = a.store
    /\ phase' = "settled"
    /\ UNCHANGED <<call, request, outcome, parseAttempts, requestCount, inflight>>

\* A runtime that answers a registration with the (name, revision) pairs of
\* the services, as a deployment lists them, not with their full metadata.
TerseAnswer(a) ==
    IF a.response.status = 201
    THEN JsonResponse(201, "Created",
                      JObj(<< <<"id", Get(JSONParse(a.response.body).val, "id")>>,
                              <<"services", JArr(<<NameRev("Greeter", 1)>>)>> >>))
    ELSE a.response
RuntimeServesTersely ==
    /\ phase = "sent"
    /\ request.method = "POST" /\ request.url = DeploymentsUrl
    /\ \E a \in {Serve(request, deployments)} :
           /\ net' = Responded(TerseAnswer(a))
           /\ deployments' = a.store
    /\ phase' = "settled"
    /\ UNCHANGED <<call, request, outcome, parseAttempts, requestCount, inflight>>

SessionNext ==
    \/ ListDeploymentsTool \/ ListDeploymentsReturn
    \/ GetDeploymentTool \/ GetDeploymentReturn
    \/ CreateDeploymentTool \/ CreateDeploymentReturn
    \/ DeleteDeploymentTool \/ DeleteDeploymentReturn
    \/ ListInvocations \/ ListInvocationsReturn
    \/ RuntimeServes \/ RuntimeServesTersely
    \/ Forget

SessionSpec == Init /\ [][SessionNext]_vars

\* Calls the transport interleaves: the handlers are async functions, so a
\* second call may start, and its request may be answered, while the first
\* awaits fetch().
ConcurrentCalls ==
    {[tool |-> t, args |-> Obj1("deploymentId", JStr(id))] :
        t \in {"get-deployment", "delete-deployment"}, id \in DeploymentIds}
RequestOf(tool, a) ==
    IF tool = "get-deployment"
    THEN getDeploymentRequest(Get(a, "deploymentId").v)
    ELSE deleteDeploymentRequest(Get(a, "deploymentId").v, Get(a, "force"))
Started(c, a) ==
    [phase |-> "sent", call |-> [tool |-> c.tool, args |-> c.args, validated |-> a],
     request |-> RequestOf(c.tool, a), net |-> NoNet, outcome |-> NoOutcome]
\* What a handler returns or throws, its client operation having answered r.
Returned(r, content) == IF r.ok THEN Success(r.val, content) ELSE Failure(r.error)
HandlerOutcome(c, n) ==
    IF c.tool = "get-deployment"
    THEN Returned(getDeployment(Get(c.validated, "deploymentId").v, n),
                  JsonContent(getDeployment(Get(c.validated, "deploymentId").v, n).val))
    ELSE Returned(deleteDeployment(Get(c.validated, "deploymentId").v,
                                   Get(c.validated, "force"), n),
                  DeleteDeploymentContent(c.validated,
                      deleteDeployment(Get(c.validated, "deploymentId").v,
                                       Get(c.validated, "force"), n).val))

\* A response kept in one variable all the calls read: whatever fetch() settles
\* with reaches every call that awaits one.
DeliveredToAll(flights, i, n) ==
    [j \in DOMAIN flights |->
        IF flights[j].phase = "sent"
        THEN [flights[j] EXCEPT !.net = n, !.phase = "settled"]
        ELSE flights[j]]

\* const response = await fetch(...): what fetch() settles with is a local of
\* the call that sent the request.
Delivered(flights, i, n) ==
    [flights EXCEPT ![i] = [flights[i] EXCEPT !.net = n, !.phase = "settled"]]

Begin(i) ==
    /\ inflight[i].phase = "idle"
    /\ \E c \in ConcurrentCalls :
           \E a \in {ToolArguments(c.tool, c.args)} :
               /\ a.ok
               /\ inflight' = [inflight EXCEPT ![i] = Started(c, a.val)]
    /\ UNCHANGED <<phase, call, request, net, outcome, parseAttempts, requestCount,
                   deployments>>
Answer(i) ==
    /\ inflight[i].phase = "sent"
    /\ \E a \in {Serve(inflight[i].request, deployments)} :
           /\ inflight' = Delivered(inflight, i, Responded(a.response))
           /\ deployments' = a.store
    /\ UNCHANGED <<phase, call, request, net, outcome, parseAttempts, requestCount>>
Lose(i) ==
    /\ inflight[i].phase = "sent"
    /\ inflight' = Delivered(inflight, i, Rejected(TypeErrorOf("fetch failed")))
    /\ UNCHANGED <<phase, call, request, net, outcome, parseAttempts, requestCount,
                   deployments>>
Finish(i) ==
    /\ inflight[i].phase = "settled"
    /\ inflight' = [inflight EXCEPT ![i] =
                        [inflight[i] EXCEPT
                            !.outcome = HandlerOutcome(inflight[i].call, inflight[i].net),
                            !.phase = "done"]]
    /\ UNCHANGED <<phase, call, request, net, outcome, parseAttempts, requestCount,
                   deployments>>
Release(i) ==
    /\ inflight[i].phase = "done"
    /\ inflight' = [inflight EXCEPT ![i] = IdleFlight]
    /\ UNCHANGED <<phase, call, request, net, outcome, parseAttempts, requestCount,
                   deployments>>

BeginCall == \E i \in Slots : Begin(i)
RuntimeAnswers == \E i \in Slots : Answer(i)
RequestFails == \E i \in Slots : Lose(i)
CallReturns == \E i \in Slots : Finish(i)
CallForgotten == \E i \in Slots : Release(i)

\* The runtime holds two deployments when the calls start.
ConcurrentInit ==
    /\ phase = "idle"
    /\ call = NoCall
    /\ request = NoRequest
    /\ net = NoNet
    /\ outcome = NoOutcome
    /\ parseAttempts = 0
    /\ requestCount = 0
    /\ deployments = <<StoredDeployment(<<"dep_1">>, T("http://svc:9080")),
                       StoredDeployment(<<"dep_2">>, T("http://svc:9081"))>>
    /\ inflight = [i \in Slots |-> IdleFlight]
ConcurrentNext ==
    BeginCall \/ RuntimeAnswers \/ RequestFails \/ CallReturns \/ CallForgotten
ConcurrentSpec == ConcurrentInit /\ [][ConcurrentNext]_vars

\* The calls of every tool against a runtime whose answers are short: no
\* body, a body that is not JSON, JSON null and an empty JSON object.
BriefResponses ==
    {Response(204, "No Content", JNull, JNull, <<>>),
     Response(404, "Not Found", JNull, T("text/plain"), <<"oops">>),
     Response(200, "OK", JNull, T("text/plain"), <<"oops">>),
     Response(200, "OK", JNull, T("application/json"), <<"null">>),
     Response(200, "OK", JNull, T("application/json"), <<"{", "}">>)}
RespondsBriefly ==
    /\ phase = "sent"
    /\ \E r \in BriefResponses : net' = Responded(r)
    /\ phase' = "settled"
    /\ UNCHANGED <<call, request, outcome, parseAttempts, requestCount, deployments,
                   inflight>>

Calls ==
    \/ ListDeploymentsTool \/ GetDeploymentTool \/ CreateDeploymentTool
    \/ DeleteDeploymentTool \/ ListServicesTool \/ GetServiceTool
    \/ ModifyServiceTool \/ QueryTool \/ UnknownTool \/ ListInvocations
\* fetch() settles: the request is answered, or it fails.
Resolves == RespondsBriefly \/ FetchFails
\* The handler awaiting fetch() resumes and returns or throws.
Returns ==
    \/ ListDeploymentsReturn \/ GetDeploymentReturn \/ CreateDeploymentReturn
    \/ DeleteDeploymentReturn \/ ListServicesReturn \/ GetServiceReturn
    \/ ModifyServiceReturn \/ QueryReturn \/ ListInvocationsReturn
LiveNext == Calls \/ Resolves \/ Returns \/ Forget
\* Every request is resolved (what the runtime and the transport are assumed
\* to do), and the event loop resumes a handler whose await has settled.
LiveSpec == Init /\ [][LiveNext]_vars /\ WF_vars(Resolves) /\ WF_vars(Returns)

(***************************************************************************)
(* Properties.                                                             *)
(***************************************************************************)
\* The tools whose client operation goes through fetchWithOptions.
GatewayTools == RegisteredTools \ {"query"}
\* A call over, the gateway having met the response r of the runtime.
GatewayMet == phase = "done" /\ call.tool \in GatewayTools /\ net.kind = "response"
\* What the gateway call of the finished tool call completed with.
Fetched == fetchWithOptions(request.url, net)
ErrorText == outcome.error.message
Is2xx(status) == status \in 200..299
DeclaresNoBody(r) == r.status = 204 \/ r.contentLength = T("0")

\* C1 (as stated): every response with status 204 or with Content-Length "0"
\* makes the gateway return null without any attempt to parse a body.
C1_EveryNoBodyResponseIsNull ==
    (GatewayMet /\ DeclaresNoBody(net.response))
        => (Fetched = Return(JNull, 0) /\ parseAttempts = 0)

\* C1 (amended): every 2xx response with status 204 or with Content-Length "0"
\* makes the gateway return null without any attempt to parse a body, and
\* delete-deployment against a 204 succeeds; a non-2xx response that declares
\* no body is the remote error of its status.
C1_NoBody2xxIsNull ==
    (GatewayMet /\ DeclaresNoBody(net.response))
        => IF Is2xx(net.response.status)
           THEN /\ Fetched = Return(JNull, 0)
                /\ parseAttempts = 0
                /\ call.tool = "delete-deployment" => outcome.kind = "result"
           ELSE /\ outcome.kind = "error"
                /\ Contains(ErrorText, <<ToString(net.response.status), Space,
                                         net.response.statusText>>)

C1_Witness ==
    /\ GatewayMet
    /\ call.tool = "delete-deployment"
    /\ net.response.status = 204
    /\ parseAttempts = 0
    /\ outcome.kind = "result"

\* A JSON body that carries a message field with a string value.
HasMessage(p) == p.ok /\ HasKey(p.val, "message") /\ Get(p.val, "message").t = "str"
RemoteFailure == GatewayMet /\ ~Is2xx(net.response.status)
NamesStatus ==
    /\ Contains(ErrorText, <<ToString(net.response.status)>>)
    /\ Contains(ErrorText, <<net.response.statusText>>)

\* C2: on a non-2xx response whose body is JSON with a message X, the error
\* text contains the status code, the status text and X verbatim.
C2_MessageVerbatim ==
    (RemoteFailure /\ HasMessage(JSONParse(net.response.body)))
        => /\ outcome.kind = "error"
           /\ NamesStatus
           /\ Contains(ErrorText, Get(JSONParse(net.response.body).val, "message").v)

\* C3: on a non-2xx response whose body is not valid JSON, the error text
\* contains the status code, the status text and the raw body verbatim, and the
\* error is not the failure of JSON.parse.
C3_RawTextVerbatim ==
    (RemoteFailure /\ ~JSONParse(net.response.body).ok)
        => /\ outcome.kind = "error"
           /\ NamesStatus
           /\ Contains(ErrorText, <<": ">> \o net.response.body)
           /\ outcome.error.name # "SyntaxError"
           /\ ~Contains(ErrorText, SyntaxErrorOf(net.response.body).message)

C3_Witness ==
    /\ RemoteFailure
    /\ net.response.body = <<"{", "oops">>
    /\ outcome.kind = "error"
    /\ Contains(ErrorText, <<"500", Space, "Internal Server Error", ": ", "{", "oops">>)

\* The fields of the PATCH body, as the runtime reads them.
PatchBody == JSONParse(request.body)
\* The argument arg was supplied, and the body carries it as the field key.
Carries(arg, key) ==
    /\ HasKey(PatchBody.val, key) <=> HasKey(call.args, arg)
    /\ HasKey(call.args, arg) => Get(PatchBody.val, key) = Get(call.args, arg)
Supplied(arg) == IF HasKey(call.args, arg) THEN 1 ELSE 0

\* C4: the PATCH body of modify-service carries exactly the fields the caller
\* supplied (isPublic as public, idempotencyRetention as idempotency_retention),
\* no other field, and no field with a null placeholder.
C4_PatchOnlySupplied ==
    (call.tool = "modify-service" /\ phase \in {"sent", "settled", "done"}
     /\ request # NoRequest)
        => /\ request.method = "PATCH"
           /\ PatchBody.ok /\ PatchBody.val.t = "obj"
           /\ Carries("isPublic", "public")
           /\ Carries("idempotencyRetention", "idempotency_retention")
           /\ Len(PatchBody.val.v) = Supplied("isPublic") + Supplied("idempotencyRetention")
           /\ \A i \in 1..Len(PatchBody.val.v) : PatchBody.val.v[i][2] # JNull

C4_Witness ==
    /\ call.tool = "modify-service"
    /\ phase = "sent"
    /\ call.args = JObj(<< <<"serviceName", T("Greeter")>>, <<"isPublic", JBool(FALSE)>> >>)
    /\ request.body = <<"{", Quote, "public", Quote, ":", "false", "}">>

\* The rows of a query result: an object whose rows, when it has any, are row
\* objects.
IsRows(result) ==
    /\ result.t = "obj"
    /\ HasKey(result, "rows")
          => /\ Get(result, "rows").t = "arr"
             /\ \A i \in 1..Len(Get(result, "rows").v) : Get(result, "rows").v[i].t = "obj"
RowsOf(result) == IF HasKey(result, "rows") THEN Get(result, "rows").v ELSE <<>>
ListedInvocations == Get(outcome.value, "invocations").v
InvocationsCalled == phase = "done" /\ call = ListInvocationsCall
QueryResult == queryKVState(net)

\* C5: for every query result, listInvocations returns one invocation per row
\* and does not throw, whatever columns the rows lack; a row without
\* completed_at gives an invocation whose completed_at is null.
C5_MissingCompletedAtIsNull ==
    (InvocationsCalled /\ QueryResult.ok /\ IsRows(QueryResult.val))
        => /\ outcome.kind = "result"
           /\ Len(ListedInvocations) = Len(RowsOf(QueryResult.val))
           /\ \A i \in 1..Len(ListedInvocations) :
                ~HasKey(RowsOf(QueryResult.val)[i], "completed_at")
                    => /\ HasKey(ListedInvocations[i], "completed_at")
                       /\ Get(ListedInvocations[i], "completed_at") = JNull

C5_Witness ==
    /\ InvocationsCalled
    /\ QueryResult.ok
    /\ RowsOf(QueryResult.val) = <<JObj(<<>>), JObj(SubSeq(FullRow, 1, 5))>>
    /\ outcome.kind = "result"
    /\ Get(ListedInvocations[1], "completed_at") = JNull
    /\ Get(ListedInvocations[2], "completed_at") = JNull

\* C6: a successful call of any tool but delete-deployment returns one text
\* block whose text, parsed as JSON, is the value its client operation returned.
C6_TextRoundTrip ==
    (phase = "done" /\ outcome.kind = "result"
     /\ call.tool \in RegisteredTools \ {"delete-deployment"})
        => /\ Len(outcome.content) = 1
           /\ outcome.content[1].type = "text"
           /\ JSONParse(outcome.content[1].text) = Parsed(outcome.value,
                                                          Len(outcome.content[1].text) + 1)

C6_Witness ==
    /\ phase = "done"
    /\ outcome.kind = "result"
    /\ call.tool = "get-service"
    /\ Get(outcome.value, "documentation") = JStr(<<"says ", Quote, "hi", Quote>>)
    /\ Contains(outcome.content[1].text, <<"says ", Backslash, Quote, "hi", Backslash, Quote>>)
    /\ JSONParse(outcome.content[1].text).val = outcome.value

\* create-deployment({uri, force: true}) answered 200 with the JSON value val.
Registered(val) ==
    /\ phase = "done"
    /\ call.tool = "create-deployment"
    /\ call.args = JObj(<< <<"uri", T("http://svc:9080")>>, <<"force", JBool(TRUE)>> >>)
    /\ net.kind = "response"
    /\ net.response.status = 200
    /\ net.response.body = JSONStringify(val, 0)
RegisteredWith(entries) == Registered(JObj(<< <<"id", T("dep_1")>>, <<"services", JArr(entries)>> >>))
\* The text payload names dep_1 and one service.
ReturnsDep1 ==
    /\ outcome.kind = "result"
    /\ Get(JSONParse(outcome.content[1].text).val, "id") = T("dep_1")
    /\ Len(Get(JSONParse(outcome.content[1].text).val, "services").v) = 1
\* The keys ServiceMetadataSchema requires.
RequiredOfService ==
    {"name", "handlers", "ty", "deployment_id", "revision", "public", "idempotency_retention"}

\* C7 (as stated): the runtime answering {id: "dep_1", services: [{name:
\* "Greeter", revision: 1}]}, create-deployment succeeds with id dep_1 and one
\* service entry.
C7_NameRevisionEntryAccepted ==
    RegisteredWith(<<NameRev("Greeter", 1)>>) => ReturnsDep1

\* C7 (amended): create-deployment succeeds with id dep_1 and one service entry
\* when the entry is full service metadata; an entry of name and revision alone
\* fails the validation of the response.
C7_FullMetadataEntryAccepted ==
    /\ \A e \in ServiceValues :
          (RegisteredWith(<<e>>) /\ \A k \in RequiredOfService : HasKey(e, k))
              => ReturnsDep1
    /\ RegisteredWith(<<NameRev("Greeter", 1)>>)
          => (outcome.kind = "error" /\ outcome.error.name = "ZodError")

C7_Witness ==
    /\ \E e \in ServiceValues : RegisteredWith(<<e>>) /\ HasKey(e, "idempotency_retention")
    /\ ReturnsDep1

\* C8: delete-deployment of d against a runtime answering 204 returns the one
\* text block "Successfully deleted deployment: d", not the API result.
C8_DeleteConfirmation ==
    (phase = "done" /\ call.tool = "delete-deployment" /\ net.kind = "response"
     /\ net.response.status = 204)
        => /\ outcome.kind = "result"
           /\ outcome.content =
                <<TextBlock(<<"Successfully deleted deployment: ">>
                            \o Get(call.args, "deploymentId").v)>>
           /\ ~Contains(outcome.content[1].text, <<"success">>)

C8_Witness ==
    /\ phase = "done"
    /\ call.tool = "delete-deployment"
    /\ net.kind = "response" /\ net.response.status = 204
    /\ outcome.content = <<TextBlock(<<"Successfully deleted deployment: ", "dep_1">>)>>

\* The fields only an HTTP deployment has, and only a Lambda deployment has.
HttpFields == {"uri", "protocol_type", "http_version"}
LambdaFields == {"arn", "assume_role_arn"}
IsHttp(d) == (\A k \in HttpFields : HasKey(d, k)) /\ (\A k \in LambdaFields : ~HasKey(d, k))
IsLambda(d) == HasKey(d, "arn") /\ (\A k \in HttpFields : ~HasKey(d, k))

\* C9: a deployment the validator accepts is of exactly one kind, HTTP or
\* Lambda, and carries the fields of that kind alone.
C9_OneEndpointKind ==
    /\ (phase = "done" /\ call.tool = "get-deployment" /\ outcome.kind = "result")
          => IsHttp(outcome.value) # IsLambda(outcome.value)
    /\ (phase = "done" /\ call.tool = "list-deployments" /\ outcome.kind = "result")
          => \A i \in 1..Len(Get(outcome.value, "deployments").v) :
                IsHttp(Get(outcome.value, "deployments").v[i])
                    # IsLambda(Get(outcome.value, "deployments").v[i])

\* The runtime wrote a deployment with both a uri and an arn; it was accepted.
C9_Witness ==
    /\ phase = "done"
    /\ call.tool = "get-deployment"
    /\ outcome.kind = "result"
    /\ HasKey(JSONParse(net.response.body).val, "uri")
    /\ HasKey(JSONParse(net.response.body).val, "arn")
    /\ IsHttp(outcome.value)

\* C10: every tool the "Available Tools" guide names, list-invocations among
\* them, is registered: a call of it is not answered "tool not found".
C10_GuideToolsRegistered ==
    (phase = "done" /\ call.tool \in GuideTools)
        => ~(outcome.kind = "error" /\ outcome.error.name = "McpError"
             /\ Contains(ErrorText, <<" not found">>))

\* The ids a list-deployments result names, in its order, and the ids the
\* runtime keeps, in its order.
ListedIds ==
    [i \in 1..Len(Get(outcome.value, "deployments").v) |->
        Get(Get(outcome.value, "deployments").v[i], "id")]
KeptIds == [i \in 1..Len(deployments) |-> Get(deployments[i], "id")]
\* A successful create-deployment returns the id of a deployment the runtime keeps.
CreatedIsKept ==
    (phase = "done" /\ call.tool = "create-deployment" /\ outcome.kind = "result")
        => Get(outcome.value, "id").v \in IdsOf(deployments)
\* list-deployments succeeds with the deployments the runtime keeps, each of them.
ListsEveryKept ==
    (phase = "done" /\ call.tool = "list-deployments")
        => (outcome.kind = "result" /\ ListedIds = KeptIds)
\* The runtime lets go of a deployment only on a DELETE that names it.
KeptUntilDeleted ==
    \A id \in IdsOf(deployments) \ IdsOf(deployments') :
        call.tool = "delete-deployment" /\ request.method = "DELETE" /\ id \in NamedBy(request.url)

\* C11: the id d a successful create-deployment returned is a deployment of the
\* runtime, it stays one until a delete-deployment of d, and every
\* list-deployments call succeeds and lists each deployment of the runtime: a
\* list-deployments after the create, with no delete of d between, contains d.
C11_CreatedIsListed == [](CreatedIsKept /\ ListsEveryKept) /\ [][KeptUntilDeleted]_vars

C11_Witness ==
    /\ phase = "done"
    /\ call.tool = "list-deployments"
    /\ Len(deployments) = 2
    /\ outcome.kind = "result"
    /\ ListedIds = <<T("dep_2"), T("dep_1")>>

\* C12: list-invocations answers with the running invocations, and
\* cancel-invocation({invocationId, mode: "Cancel"}) returns a text result,
\* after which the invocation is listed no more: both calls return a result.
C12_ListAndCancelAnswer ==
    (phase = "done" /\ call.tool \in {"list-invocations", "cancel-invocation"})
        => /\ outcome.kind = "result"
           /\ Len(outcome.content) = 1
           /\ outcome.content[1].type = "text"

\* C13: a create-deployment call that supplies a function identifier (arn) and
\* no uri passes the validation of its arguments and sends POST /deployments
\* with that identifier in the body.
C13_ArnRegisters ==
    (call.tool = "create-deployment" /\ HasKey(call.args, "arn") /\ ~HasKey(call.args, "uri"))
        => /\ call.validated # JUndef
           /\ request.method = "POST"
           /\ request.url = DeploymentsUrl
           /\ Get(JSONParse(request.body).val, "arn") = Get(call.args, "arn")

\* The force the caller of delete-deployment asked for: true when omitted.
AskedForce == IF Get(call.args, "force") = JBool(FALSE) THEN "false" ELSE "true"

\* C14: delete-deployment sends one request, DELETE
\* <base>/deployments/<id>?force=true when force is omitted or true, and
\* ...?force=false when force is false.
C14_DeleteForceDefault ==
    (call.tool = "delete-deployment" /\ phase \in {"sent", "settled", "done"})
        => /\ requestCount = 1
           /\ request.method = "DELETE"
           /\ request.url = <<RESTATE_API_BASE, "/deployments", "/">>
                                \o Get(call.args, "deploymentId").v
                                \o <<"?force=", AskedForce>>

C14_Witness ==
    /\ call.tool = "delete-deployment"
    /\ phase = "done"
    /\ ~HasKey(call.args, "force")
    /\ request.url = <<"http://localhost:9070", "/deployments", "/", "dep_2", "?force=", "true">>

\* The method and the path of each tool's row, for the arguments of the call.
RowMethod ==
    IF call.tool \in {"create-deployment", "query"} THEN "POST"
    ELSE IF call.tool = "delete-deployment" THEN "DELETE"
    ELSE IF call.tool = "modify-service" THEN "PATCH"
    ELSE "GET"
RowPath ==
    IF call.tool \in {"list-deployments", "create-deployment"} THEN <<"/deployments">>
    ELSE IF call.tool \in {"get-deployment", "delete-deployment"}
    THEN <<"/deployments", "/">> \o Get(call.args, "deploymentId").v
    ELSE IF call.tool = "list-services" THEN <<"/services">>
    ELSE IF call.tool \in {"get-service", "modify-service"}
    THEN <<"/services", "/">> \o Get(call.args, "serviceName").v
    ELSE <<"/query">>
\* The path of a URL: what follows the base, without the ?force= query string.
PathOf(url) ==
    IF Len(url) > 2 /\ url[Len(url) - 1] = "?force="
    THEN SubSeq(url, 2, Len(url) - 2)
    ELSE SubSeq(url, 2, Len(url))
ToolCalled == phase \in {"sent", "settled", "done"} /\ call.tool \in RegisteredTools

\* C15: a tool call sends no request, or the request of its row: the row's
\* method, the row's path under the base URL, and for query the JSON body
\* {query: the caller's text}.
C15_MethodAndPath ==
    (ToolCalled /\ request # NoRequest)
        => /\ request.method = RowMethod
           /\ request.url[1] = RESTATE_API_BASE
           /\ PathOf(request.url) = RowPath
           /\ call.tool = "query"
                => JSONParse(request.body).val = Obj1("query", Get(call.args, "query"))

C15_Witness ==
    /\ phase = "sent"
    /\ call.tool = "query"
    /\ Get(call.args, "query") = JStr(<<"SELECT ", Quote, "key", Quote, " FROM state">>)
    /\ request.method = "POST"
    /\ request.url = <<"http://localhost:9070", "/query">>
    /\ Contains(request.body, <<Backslash, Quote, "key", Backslash, Quote>>)

\* The values the request carries for a header.
HeaderValues(name) ==
    {request.headers[i][2] : i \in {j \in 1..Len(request.headers) : request.headers[j][1] = name}}
\* The operations that send a JSON body.
JsonBodied == {"create-deployment", "modify-service", "query", "restateApi.listInvocations"}

\* C16: every request sent, the direct fetch of the query path included, carries
\* User-Agent: restate-mcp-server/0.0.1, and every request with a JSON body
\* (create-deployment, modify-service, query) carries Content-Type:
\* application/json.
C16_IdentityAndContentType ==
    (phase \in {"sent", "settled", "done"} /\ request # NoRequest)
        => /\ HeaderValues("User-Agent") = {"restate-mcp-server/0.0.1"}
           /\ (call.tool \in JsonBodied) = (request.body # NoBodyText)
           /\ call.tool \in JsonBodied
                => /\ JSONParse(request.body).ok
                   /\ HeaderValues("Content-Type") = {"application/json"}

C16_Witness ==
    /\ phase = "sent"
    /\ call.tool = "create-deployment"
    /\ HasKey(call.args, "additionalHeaders")
    /\ request.headers = << <<"User-Agent", "restate-mcp-server/0.0.1">>,
                            <<"Content-Type", "application/json">> >>

\* The media type a Content-Type declares: its text without the parameters.
MediaType(contentType) == SelectSeq(contentType.v, LAMBDA a : a # "; charset=utf-8")
DeclaresOtherThanJson(r) ==
    r.contentType.t = "str" /\ MediaType(r.contentType) # <<"application/json">>
QueryMet ==
    /\ phase = "done"
    /\ call.tool \in {"query", "restateApi.listInvocations"}
    /\ net.kind = "response"

\* C17: queryKVState fails, and returns no value, on every 2xx response that
\* declares a Content-Type other than JSON.
C17_NonJsonTypeFails ==
    (QueryMet /\ ResponseOk(net.response) /\ DeclaresOtherThanJson(net.response))
        => (~queryKVState(net).ok /\ outcome.kind = "error")

DeclaresJson(r) == r.contentType.t = "str" /\ MediaType(r.contentType) = <<"application/json">>
\* The first n characters of a text.
Prefix(text, n) == SubSeq(text, 1, IF Len(text) < n THEN Len(text) ELSE n)

\* C18: on a 2xx response declared JSON whose body is not valid JSON, the error
\* of queryKVState quotes the first 50 characters of the body and no more: a
\* body longer than 50 characters is not in the error text.
C18_PreviewIsBounded ==
    (QueryMet /\ ResponseOk(net.response) /\ DeclaresJson(net.response)
     /\ ~JSONParse(net.response.body).ok)
        => /\ outcome.kind = "error"
           /\ ErrorText = <<"SQL query error: ", "Invalid JSON response: ">>
                            \o Prefix(net.response.body, 50) \o <<"...">>
           /\ Len(net.response.body) > 50 => ~Contains(ErrorText, net.response.body)

C18_Witness ==
    /\ QueryMet
    /\ call.tool = "query"
    /\ DeclaresJson(net.response)
    /\ Len(net.response.body) = 52
    /\ outcome.kind = "error"
    /\ Len(ErrorText) = 53
    /\ ~Contains(ErrorText, <<"y">>)

\* C19: a tool call sends at most one HTTP request, whatever its outcome: none
\* when its arguments are refused, one otherwise, and none after the request
\* was answered or failed.
C19_OneRequestPerCall ==
    /\ requestCount = (IF request = NoRequest THEN 0 ELSE 1)
    /\ phase \in {"sent", "settled"} => requestCount = 1
    /\ (phase = "done" /\ call.tool \in RegisteredTools)
          => (requestCount = 1) = (call.validated # JUndef)

C19_Witness ==
    /\ phase = "done"
    /\ call.tool = "list-services"
    /\ net.kind = "rejected"
    /\ outcome.kind = "error"
    /\ requestCount = 1

\* The schema each tool's client operation validates the response with.
SchemaOfTool ==
    IF call.tool = "list-deployments" THEN ListDeploymentsResponseSchema
    ELSE IF call.tool = "get-deployment" THEN DeploymentResponseSchema
    ELSE IF call.tool = "create-deployment" THEN RegisterDeploymentResponseSchema
    ELSE IF call.tool = "list-services" THEN ListServicesResponseSchema
    ELSE ServiceMetadataSchema
Validating == RegisteredTools \ {"delete-deployment", "query"}
\* The body of the response is read as JSON.
ReadsBody ==
    IF call.tool = "query"
    THEN ~DeclaresOtherThanJson(net.response)
    ELSE ~DeclaresNoBody(net.response)
\* The four ways the outbound call of a tool ends in an error.
TransportError == net.kind = "rejected"
RemoteErrorMet == net.kind = "response" /\ ~Is2xx(net.response.status)
DecodeError ==
    /\ net.kind = "response" /\ Is2xx(net.response.status)
    /\ ReadsBody /\ ~JSONParse(net.response.body).ok
ValidationError ==
    /\ net.kind = "response" /\ Is2xx(net.response.status)
    /\ call.tool \in Validating
    /\ \/ ~ReadsBody /\ ~ZodParse(SchemaOfTool, JNull).ok
       \/ /\ ReadsBody /\ JSONParse(net.response.body).ok
          /\ ~ZodParse(SchemaOfTool, JSONParse(net.response.body).val).ok

\* C20: a tool call whose outbound call ends in a transport error, a non-2xx
\* response, a decode error or a response that fails validation fails with that
\* error: it returns no success content, the delete confirmation included.
C20_ErrorsPropagate ==
    (phase = "done" /\ call.tool \in RegisteredTools /\ request # NoRequest
     /\ (TransportError \/ RemoteErrorMet \/ DecodeError \/ ValidationError))
        => /\ outcome.kind = "error"
           /\ outcome.value = JUndef
           /\ outcome.error.message # <<>>
           /\ outcome.content = <<TextBlock(outcome.error.message)>>
           /\ ~Contains(outcome.content[1].text, <<"Successfully deleted deployment: ">>)

C20_Witness ==
    /\ phase = "done"
    /\ call.tool = "delete-deployment"
    /\ RemoteErrorMet
    /\ outcome.kind = "error"
    /\ Contains(ErrorText, <<"500", Space, "Internal Server Error">>)

\* What the caller of the call in progress is told once fetch() settled with n.
WillReport(n) ==
    IF call.tool = "create-deployment"
    THEN createDeployment(CreateDeploymentBody(call.validated), n)
    ELSE modifyService(Arg("serviceName").v, ModifyServiceOptions(call.validated), n)
\* The call in progress ends in a validation error of the runtime's response.
ResponseRejected(r) == ~r.ok /\ r.error.name = "ZodError"
Mutating == {"create-deployment", "modify-service"}

\* C21: a create-deployment or modify-service call that reports a validation
\* error, of its arguments or of the runtime's response, has not changed the
\* state of the runtime.
C21_ValidationErrorChangesNothing ==
    [][/\ (phase = "idle" /\ phase' = "done" /\ call'.tool \in Mutating)
            => deployments' = deployments
       /\ (phase = "sent" /\ phase' = "settled" /\ call.tool \in Mutating
           /\ ResponseRejected(WillReport(net')))
            => deployments' = deployments]_vars

\* The text the gateway raises for a non-2xx response with the message part m.
RemoteErrorText(m) ==
    <<"Failed to fetch ">> \o request.url \o <<": ">> \o StatusLine(net.response, m)
MessageField == Get(JSONParse(net.response.body).val, "message")

\* C23: on a non-2xx response whose body is JSON with a non-empty message
\* field, the message part of the gateway's error is the value of that field;
\* the raw body text is the message part only when the body is not JSON.
C23_MessagePartIsMessageField ==
    /\ (RemoteFailure /\ HasMessage(JSONParse(net.response.body)) /\ MessageField.v # <<>>)
            => /\ outcome.kind = "error"
               /\ ErrorText = RemoteErrorText(MessageField.v)
    /\ (RemoteFailure /\ ~JSONParse(net.response.body).ok)
            => /\ outcome.kind = "error"
               /\ ErrorText = RemoteErrorText(net.response.body)

\* A 2xx response the gateway reads the body of.
BodyRead == GatewayMet /\ Is2xx(net.response.status) /\ ~DeclaresNoBody(net.response)
\* The text of a failure wrapped by the gateway: the URL, then the message.
WrappedText(message) == <<"Failed to fetch ">> \o request.url \o <<": ">> \o message

\* C24: a 2xx response that declares a body which is not valid JSON ends the
\* call in the error "Failed to fetch <url>: <message of the parse failure>",
\* the form a network failure has, and never in a result.
C24_BadJsonIsWrappedFailure ==
    /\ (BodyRead /\ ~JSONParse(net.response.body).ok)
            => /\ outcome.kind = "error"
               /\ ErrorText = WrappedText(SyntaxErrorOf(net.response.body).message)
               /\ ~Fetched.ok
    /\ (phase = "done" /\ call.tool \in GatewayTools /\ net.kind = "rejected")
            => ErrorText = WrappedText(net.error.message)

C24_Witness ==
    /\ BodyRead
    /\ net.response.body = <<"oops">>
    /\ outcome.kind = "error"
    /\ ErrorText = WrappedText(<<"Unexpected token in JSON">>)

\* C25: whatever the operation, a call whose request failed on the network
\* ends in an error whose text contains the URL of the request and the message
\* of the failure.
C25_NetworkFailureNamesUrl ==
    (phase = "done" /\ TransportError)
        => /\ outcome.kind = "error"
           /\ Contains(ErrorText, request.url)
           /\ Contains(ErrorText, net.error.message)

\* The branches of the deployment validator the object d matches structurally.
MatchesHttp(d) == ZodParse(HttpDeploymentSchema, d).ok
MatchesLambda(d) == ZodParse(LambdaDeploymentSchema, d).ok
\* get-deployment is over, the runtime having answered a JSON body to validate.
DeploymentRead ==
    /\ phase = "done" /\ call.tool = "get-deployment"
    /\ net.kind = "response" /\ Is2xx(net.response.status)
    /\ ~DeclaresNoBody(net.response)
    /\ JSONParse(net.response.body).ok

\* C26: a deployment object that matches neither branch of the validator, or
\* that matches both, fails validation.
C26_AmbiguousRejected ==
    (DeploymentRead /\ MatchesHttp(JSONParse(net.response.body).val)
                        = MatchesLambda(JSONParse(net.response.body).val))
        => (outcome.kind = "error" /\ outcome.error.name = "ZodError")

\* The field key is in the same one of its three states (absent, null, a
\* value) in the object sent and in the object the validator returned.
SameState(sent, validated, key) ==
    /\ HasKey(validated, key) <=> HasKey(sent, key)
    /\ HasKey(sent, key) => Get(validated, key) = Get(sent, key)
\* The service the runtime answered the finished get-service call with.
ServiceRead(service) ==
    /\ phase = "done" /\ call.tool = "get-service"
    /\ net.kind = "response" /\ net.response.status = 200
    /\ net.response.body = JSONStringify(service, 0)
\* The deployments of the Lambda kind alone.
LambdaValues == {d \in DeploymentValues : IsLambda(d)}
LambdaRead(d) ==
    /\ phase = "done" /\ call.tool = "get-deployment"
    /\ net.kind = "response" /\ net.response.status = 200
    /\ net.response.body = JSONStringify(d, 0)

\* C27: assume_role_arn of a Lambda deployment, and documentation and metadata
\* of a service and of a handler, are accepted absent, null and with a value,
\* and come out of the validator in the state they were sent in.
C27_ThreeStatesKept ==
    /\ \A d \in LambdaValues :
          LambdaRead(d)
              => /\ outcome.kind = "result"
                 /\ SameState(d, outcome.value, "assume_role_arn")
    /\ \A e \in AnnotatedServices \cup {v \in ServiceValues : HasKey(v, "idempotency_retention")} :
          ServiceRead(e)
              => /\ outcome.kind = "result"
                 /\ \A key \in {"documentation", "metadata"} :
                       /\ SameState(e, outcome.value, key)
                       /\ SameState(Get(e, "handlers").v[1],
                                    Get(outcome.value, "handlers").v[1], key)

\* The invocations the runtime reports as running.
RunningInvocations ==
    SelectSeq(SysInvocation, LAMBDA row : Get(row, "status") = T("running"))

\* C28: listInvocations returns one entry for every invocation the runtime
\* reports as running.
C28_ListsEveryRunning ==
    (InvocationsCalled /\ net.kind = "response")
        => /\ outcome.kind = "result"
           /\ Len(ListedInvocations) = Len(RunningInvocations)
           /\ \A i \in 1..Len(RunningInvocations) :
                 \E j \in 1..Len(ListedInvocations) :
                     Get(ListedInvocations[j], "id") = Get(RunningInvocations[i], "id")

\* The body of the registration request, as the runtime reads it.
RegistrationBody == JSONParse(request.body).val
\* create-deployment was called without the argument arg.
Omits(arg) == ~HasKey(call.args, arg)

\* C29: a create-deployment call that omits force, useHttp11 (and dry_run)
\* sends a POST body with force = true, use_http_11 = false and dry_run =
\* false filled in.
C29_DefaultsFilled ==
    (call.tool = "create-deployment" /\ phase \in {"sent", "settled", "done"}
     /\ requestCount = 1)
        => /\ Omits("force")
                => /\ HasKey(RegistrationBody, "force")
                   /\ Get(RegistrationBody, "force") = JBool(TRUE)
           /\ Omits("useHttp11")
                => /\ HasKey(RegistrationBody, "use_http_11")
                   /\ Get(RegistrationBody, "use_http_11") = JBool(FALSE)
           /\ /\ HasKey(RegistrationBody, "dry_run")
              /\ Get(RegistrationBody, "dry_run") = JBool(FALSE)

\* The deployment the call of slot i names.
Named(i) == Get(inflight[i].call.validated, "deploymentId").v
Finished(i) == inflight[i].phase = "done"

\* C22: however the calls interleave, the result of a call is the one its own
\* arguments and the response to its own request determine: get-deployment
\* of d returns the deployment d, delete-deployment of d confirms d, an error
\* names the call's own request, and two calls with equal arguments and equal
\* responses end alike.
C22_CallsDoNotMix ==
    \A i \in Slots :
        Finished(i)
            => /\ inflight[i].outcome = HandlerOutcome(inflight[i].call, inflight[i].net)
               /\ (inflight[i].outcome.kind = "result"
                   /\ inflight[i].call.tool = "get-deployment")
                     => Get(inflight[i].outcome.value, "id").v = Named(i)
               /\ (inflight[i].outcome.kind = "result"
                   /\ inflight[i].call.tool = "delete-deployment")
                     => inflight[i].outcome.content =
                          <<TextBlock(<<"Successfully deleted deployment: ">> \o Named(i))>>
               /\ inflight[i].outcome.kind = "error"
                     => Contains(inflight[i].outcome.error.message, inflight[i].request.url)
               /\ \A j \in Slots :
                     (Finished(j) /\ inflight[j].call = inflight[i].call
                      /\ inflight[j].net = inflight[i].net)
                         => inflight[j].outcome = inflight[i].outcome

\* Two calls in flight at once, each ended with the deployment it asked for.
C22_Witness ==
    /\ \A i \in {1, 2} :
          /\ Finished(i)
          /\ inflight[i].call.tool = "get-deployment"
          /\ inflight[i].outcome.kind = "result"
    /\ Named(1) = <<"dep_1">> /\ Get(inflight[1].outcome.value, "id").v = <<"dep_1">>
    /\ Named(2) = <<"dep_2">> /\ Get(inflight[2].outcome.value, "id").v = <<"dep_2">>

Pending == phase \in {"sent", "settled"}
Completed == phase = "done" /\ outcome.kind \in {"result", "error"}

\* C30: every request being resolved, a call that was started completes, with
\* one outcome that does not change afterwards; the call sends one request,
\* and as long as that request is not resolved the call stays pending, nothing
\* local ending it or sending again.
C30_CallsComplete ==
    /\ Pending ~> Completed
    /\ [](phase = "done" => outcome.kind \in {"result", "error"})
    /\ [](Pending => (requestCount = 1 /\ outcome = NoOutcome))
    /\ [][(phase = "sent" => phase' \in {"sent", "settled"})
          /\ (phase = "sent" /\ phase' = "settled" => net' # NoNet)
          /\ (phase = "done" => (outcome' = outcome \/ phase' = "idle"))]_vars

\* A call completed with an error once its request had failed.
C30_Witness ==
    /\ Completed
    /\ requestCount = 1
    /\ net.kind = "rejected"
    /\ outcome.kind = "error"
====
